---- MODULE Spec2Model ----
(***************************************************************************)
(* PDF2Images: PdfProcessor.process and the helpers it calls (utils).      *)
(* Text is a sequence of one-character strings; a position of the editor   *)
(* is a record [line, ch], both counted from 0 as in the editor API.       *)
(***************************************************************************)
EXTENDS Integers, Sequences, FiniteSets, TLC

(***************************************************************************)
(* Bounds of the model: the pages of a document, the largest setting of    *)
(* maxConcurrentPages, how far below 1 the page index of the chunk loop is *)
(* followed when the limit is negative, the largest index of a folder that *)
(* exists before the run, and the text items of a page given to            *)
(* extractHeader.                                                          *)
(***************************************************************************)
MaxPages == 3

MaxLimit == 2

MaxSpin == 2

MaxFolders == 3

MaxFragments == 3

MaxEdits == 1

MaxInput == 3

MaxFloatFragments == 6

MantissaBits == 3

Min(a, b) == IF a <= b THEN a ELSE b

(***************************************************************************)
(* Text helpers.                                                           *)
(***************************************************************************)
IsSpace(c) == c \in {" ", "\n"}

RECURSIVE TrimStart(_)
TrimStart(s) ==
    IF s = <<>> THEN <<>>
    ELSE IF IsSpace(Head(s)) THEN TrimStart(Tail(s)) ELSE s

RECURSIVE TrimEnd(_)
TrimEnd(s) ==
    IF s = <<>> THEN <<>>
    ELSE IF IsSpace(s[Len(s)]) THEN TrimEnd(SubSeq(s, 1, Len(s) - 1)) ELSE s

Trim(s) == TrimEnd(TrimStart(s))

RECURSIVE join(_, _)
join(strs, sep) ==
    IF strs = <<>> THEN <<>>
    ELSE IF Len(strs) = 1 THEN strs[1]
    ELSE strs[1] \o sep \o join(Tail(strs), sep)

Digit(n) == <<"0", "1", "2", "3", "4", "5", "6", "7", "8", "9">>[n + 1]

RECURSIVE NumStr(_)
NumStr(n) == IF n < 10 THEN <<Digit(n)>> ELSE NumStr(n \div 10) \o <<Digit(n % 10)>>

(***************************************************************************)
(* The editor: text, positions and offsets.                                *)
(***************************************************************************)
\* the indexes of the line breaks of a text
LineBreaks(text) == {n \in 1..Len(text) : text[n] = "\n"}

CountNewlines(text) == Cardinality(LineBreaks(text))

\* offset of the first character of line n (0-based), n at most the last line
LineStart(text, n) ==
    IF n = 0 THEN 0
    ELSE LET breaks == LineBreaks(text)
         IN  CHOOSE b \in breaks : Cardinality({c \in breaks : c < b}) = n - 1

LineLength(text, n) ==
    LET start == LineStart(text, n)
        later == {b \in (start + 1)..Len(text) : text[b] = "\n"}
    IN  IF later = {} THEN Len(text) - start
        ELSE (CHOOSE b \in later : \A c \in later : b <= c) - 1 - start

posToOffset(text, pos) ==
    LET last == CountNewlines(text)
        line == IF pos.line > last THEN last ELSE pos.line
        ch   == IF pos.line > last THEN LineLength(text, last)
                ELSE Min(pos.ch, LineLength(text, line))
    IN  LineStart(text, line) + ch

offsetToPos(text, offset) ==
    LET off    == Min(offset, Len(text))
        before == SubSeq(text, 1, off)
        line   == CountNewlines(before)
    IN  [line |-> line, ch |-> off - LineStart(text, line)]

replaceRange(text, insert, pos) ==
    LET off == posToOffset(text, pos)
    IN  SubSeq(text, 1, off) \o insert \o SubSeq(text, off + 1, Len(text))

(***************************************************************************)
(* utils: imageSeparator, insertImageLink, extractHeader.                  *)
(***************************************************************************)
\* variant: a setting outside 0..3 gives the empty string
imageSeparatorDefaultEmpty(imageSeparatorSetting) ==
    IF imageSeparatorSetting = 0 THEN <<"\n">>
    ELSE IF imageSeparatorSetting = 1 THEN <<"\n", "\n">>
    ELSE IF imageSeparatorSetting = 2 THEN <<"\n", "*", "*", "*", "\n">>
    ELSE IF imageSeparatorSetting = 3 THEN <<"\n", "\n", "*", "*", "*", "\n">>
    ELSE <<>>

imageSeparator(imageSeparatorSetting) ==
    IF imageSeparatorSetting = 0 THEN <<"\n">>
    ELSE IF imageSeparatorSetting = 1 THEN <<"\n", "\n">>
    ELSE IF imageSeparatorSetting = 2 THEN <<"\n", "*", "*", "*", "\n">>
    ELSE IF imageSeparatorSetting = 3 THEN <<"\n", "\n", "*", "*", "*", "\n">>
    ELSE <<"\n">>

\* variant: the position for the next image is not advanced
insertImageLinkSamePosition(text, insertPosition, imageLink, imageSeparatorSetting) ==
    [text     |-> replaceRange(text, imageLink \o imageSeparator(imageSeparatorSetting),
                               insertPosition),
     position |-> insertPosition]

\* variant: the position advances by the length of the link only
insertImageLinkLinkLengthOnly(text, insertPosition, imageLink, imageSeparatorSetting) ==
    LET separator    == imageSeparator(imageSeparatorSetting)
        textToInsert == imageLink \o separator
        newText      == replaceRange(text, textToInsert, insertPosition)
    IN  [text     |-> newText,
         position |-> offsetToPos(newText,
                          posToOffset(newText, insertPosition) + Len(imageLink))]

\* the text after the insertion and the position returned for the next image
insertImageLink(text, insertPosition, imageLink, imageSeparatorSetting) ==
    LET separator    == imageSeparator(imageSeparatorSetting)
        textToInsert == imageLink \o separator
        newText      == replaceRange(text, textToInsert, insertPosition)
    IN  [text     |-> newText,
         position |-> offsetToPos(newText,
                          posToOffset(newText, insertPosition) + Len(textToInsert))]

\* variant: the lines are sorted by font size in ascending order
RECURSIVE InsertAsc(_, _)
InsertAsc(sorted, line) ==
    IF sorted = <<>> THEN <<line>>
    ELSE IF Head(sorted).fontSize <= line.fontSize
         THEN <<Head(sorted)>> \o InsertAsc(Tail(sorted), line)
         ELSE <<line>> \o sorted

\* lines.sort((a, b) => b.fontSize - a.fontSize): stable, descending
RECURSIVE InsertDesc(_, _)
InsertDesc(sorted, line) ==
    IF sorted = <<>> THEN <<line>>
    ELSE IF Head(sorted).fontSize >= line.fontSize
         THEN <<Head(sorted)>> \o InsertDesc(Tail(sorted), line)
         ELSE <<line>> \o sorted

RECURSIVE SortDesc(_)
SortDesc(lines) ==
    IF lines = <<>> THEN <<>>
    ELSE InsertDesc(SortDesc(SubSeq(lines, 1, Len(lines) - 1)), lines[Len(lines)])

RECURSIVE SumFontSize(_)
SumFontSize(lines) ==
    IF lines = <<>> THEN 0 ELSE Head(lines).fontSize + SumFontSize(Tail(lines))

\* variant: without the rule for pages that contain only the header
extractHeaderNoTitleRule(page, headerExtractionSensitiveSetting) ==
    LET lines           == SortDesc(page)
        largestFontSize == IF lines = <<>> THEN 0 ELSE lines[1].fontSize
        IsHeaderLine(l) == l.fontSize = largestFontSize /\ Trim(l.text) # <<>>
        headerLines     == SelectSeq(lines, IsHeaderLine)
        header          == Trim(join([n \in 1..Len(headerLines) |-> headerLines[n].text], <<" ">>))
    IN  IF header = <<>> THEN <<>>
        ELSE IF largestFontSize * Len(lines) * 10
                    < SumFontSize(lines) * headerExtractionSensitiveSetting THEN <<>>
        ELSE header

\* sensitivity is given in tenths (12 is 1.2); the comparison
\* largest < average * sensitivity is taken over the common denominator
extractHeader(page, headerExtractionSensitiveSetting) ==
    LET lines           == SortDesc(page)
        largestFontSize == IF lines = <<>> THEN 0 ELSE lines[1].fontSize
        IsHeaderLine(l) == l.fontSize = largestFontSize /\ Trim(l.text) # <<>>
        IsNonEmpty(l)   == Trim(l.text) # <<>>
        headerLines     == SelectSeq(lines, IsHeaderLine)
        header          == Trim(join([n \in 1..Len(headerLines) |-> headerLines[n].text], <<" ">>))
        nonEmptyLines   == SelectSeq(lines, IsNonEmpty)
    IN  IF header = <<>> THEN <<>>
        ELSE IF Len(nonEmptyLines) > 0 /\ Len(headerLines) = Len(nonEmptyLines) THEN header
        ELSE IF largestFontSize * Len(lines) * 10
                    < SumFontSize(lines) * headerExtractionSensitiveSetting THEN <<>>
        ELSE header

(***************************************************************************)
(* Paths and names (PdfProcessor.process, folder setup and file names).    *)
(***************************************************************************)
\* String.prototype.replace with a string pattern: the first occurrence only
RECURSIVE RemoveFirst(_, _)
RemoveFirst(s, sub) ==
    IF Len(s) < Len(sub) THEN s
    ELSE IF SubSeq(s, 1, Len(sub)) = sub THEN SubSeq(s, Len(sub) + 1, Len(s))
    ELSE <<Head(s)>> \o RemoveFirst(Tail(s), sub)

\* replace(/#/g, '')
RECURSIVE RemoveAll(_, _)
RemoveAll(s, c) ==
    IF s = <<>> THEN <<>>
    ELSE IF Head(s) = c THEN RemoveAll(Tail(s), c)
    ELSE <<Head(s)>> \o RemoveAll(Tail(s), c)

\* normalizePath: runs of slashes become one slash, no leading or trailing slash
RECURSIVE CollapseSlashes(_)
CollapseSlashes(s) ==
    IF Len(s) < 2 THEN s
    ELSE IF s[1] = "/" /\ s[2] = "/" THEN CollapseSlashes(Tail(s))
    ELSE <<Head(s)>> \o CollapseSlashes(Tail(s))

normalizePath(s) ==
    LET c == CollapseSlashes(s)
        a == IF c # <<>> /\ Head(c) = "/" THEN Tail(c) ELSE c
    IN  IF a # <<>> /\ a[Len(a)] = "/" THEN SubSeq(a, 1, Len(a) - 1) ELSE a

\* encodeURI: of the characters used here only the space is escaped
RECURSIVE encodeURI(_)
encodeURI(s) ==
    IF s = <<>> THEN <<>>
    ELSE (IF Head(s) = " " THEN <<"%", "2", "0">> ELSE <<Head(s)>>) \o encodeURI(Tail(s))

cleanPdfName(fileName) == RemoveAll(RemoveFirst(fileName, <<".", "p", "d", "f">>), "#")

FolderPathFor(basePath, fileName, folderIndex) ==
    normalizePath(basePath \o <<"/">> \o cleanPdfName(fileName)
                  \o (IF folderIndex = 0 THEN <<>> ELSE <<"_">> \o NumStr(folderIndex)))

\* variant: the pages are numbered from 0 in the file names
ImageNameZeroBased(pageNum, imageType) ==
    <<"p", "a", "g", "e", "_">> \o NumStr(pageNum - 1) \o <<".">> \o imageType

ImageName(pageNum, imageType) == <<"p", "a", "g", "e", "_">> \o NumStr(pageNum) \o <<".">> \o imageType

ImagePath(folderPath, pageNum, imageType) == folderPath \o <<"/">> \o ImageName(pageNum, imageType)

\* Math.round of a width given in tenths
Round(tenths) == (tenths + 5) \div 10

\* variant: the width hint is written at scale 1.0 as well
BuildLinkHintAtFullScale(result, finalHeader, headerSize) ==
    LET heading == IF finalHeader # <<>> THEN headerSize \o <<" ">> \o finalHeader \o <<"\n">>
                   ELSE <<>>
    IN  IF result.qualityToUse <= 10
        THEN heading \o <<"!", "[">> \o result.imageName \o <<"|">> \o NumStr(result.displayWidth)
                     \o <<"]", "(">> \o encodeURI(result.imagePath) \o <<")">>
        ELSE heading \o <<"!", "[">> \o result.imageName
                     \o <<"]", "(">> \o encodeURI(result.imagePath) \o <<")">>

\* the link string of one result (process, "Build the link string")
BuildLink(result, finalHeader, headerSize) ==
    LET heading == IF finalHeader # <<>> THEN headerSize \o <<" ">> \o finalHeader \o <<"\n">>
                   ELSE <<>>
    IN  IF result.qualityToUse < 10
        THEN heading \o <<"!", "[">> \o result.imageName \o <<"|">> \o NumStr(result.displayWidth)
                     \o <<"]", "(">> \o encodeURI(result.imagePath) \o <<")">>
        ELSE heading \o <<"!", "[">> \o result.imageName
                     \o <<"]", "(">> \o encodeURI(result.imagePath) \o <<")">>

\* variant: a header equal to the tracked one is emitted all the same
DedupStepNeverSuppresses(rawHeader, last, enabled) ==
    IF enabled
    THEN [finalHeader |-> rawHeader, last |-> <<rawHeader>>]
    ELSE [finalHeader |-> rawHeader, last |-> last]

\* variant: a page without a header leaves the tracked header as it is
DedupStepKeepsOverEmpty(rawHeader, last, enabled) ==
    IF enabled
    THEN IF rawHeader = <<>>
         THEN [finalHeader |-> <<>>, last |-> last]
         ELSE IF last = <<rawHeader>>
              THEN [finalHeader |-> <<>>, last |-> last]
              ELSE [finalHeader |-> rawHeader, last |-> <<rawHeader>>]
    ELSE [finalHeader |-> rawHeader, last |-> last]

\* variant: suppressing a duplicate clears the tracked header
DedupStepForgetsDuplicate(rawHeader, last, enabled) ==
    IF enabled
    THEN IF last = <<rawHeader>>
         THEN [finalHeader |-> <<>>, last |-> <<>>]
         ELSE [finalHeader |-> rawHeader, last |-> <<rawHeader>>]
    ELSE [finalHeader |-> rawHeader, last |-> last]

\* variant: duplicates are removed whatever the settings say
DedupStepIgnoresSetting(rawHeader, last, enabled) ==
    IF last = <<rawHeader>>
    THEN [finalHeader |-> <<>>, last |-> last]
    ELSE [finalHeader |-> rawHeader, last |-> <<rawHeader>>]

\* the duplicate header logic of the post-processing loop; the tracked header
\* is <<>> for null and <<h>> for the string h
DedupStep(rawHeader, last, enabled) ==
    IF enabled
    THEN IF last = <<rawHeader>>
         THEN [finalHeader |-> <<>>, last |-> last]
         ELSE [finalHeader |-> rawHeader, last |-> <<rawHeader>>]
    ELSE [finalHeader |-> rawHeader, last |-> last]

\* Math.min(totalPages, this.settings.maxConcurrentPages)
ConcurrencyLimit(pages, maxConcurrentPages) == Min(pages, maxConcurrentPages)

\* variant: the inner loop runs one page too far (j <= CONCURRENCY_LIMIT)
RECURSIVE ChunkFromOneMore(_, _, _, _)
ChunkFromOneMore(i, j, limit, pages) ==
    IF j <= limit /\ (i + j) <= pages
    THEN <<i + j>> \o ChunkFromOneMore(i, j + 1, limit, pages)
    ELSE <<>>

\* variant: the inner loop ignores the limit and starts every remaining page
RECURSIVE ChunkFromAllRemaining(_, _, _, _)
ChunkFromAllRemaining(i, j, limit, pages) ==
    IF limit > 0 /\ (i + j) <= pages
    THEN <<i + j>> \o ChunkFromAllRemaining(i, j + 1, limit, pages)
    ELSE <<>>

\* the page numbers of the chunk that starts at page i, in submission order
RECURSIVE ChunkFrom(_, _, _, _)
ChunkFrom(i, j, limit, pages) ==
    IF j < limit /\ (i + j) <= pages
    THEN <<i + j>> \o ChunkFrom(i, j + 1, limit, pages)
    ELSE <<>>

\* variant: the results arrive in the reverse of the submission order
ChunkResultsReversed(promises) == [n \in 1..Len(promises) |-> promises[Len(promises) + 1 - n]]

\* Promise.all resolves to the results in the order of the promises
ChunkResults(promises) == promises

(***************************************************************************)
(* The inputs of a run.                                                    *)
(***************************************************************************)
\* the text items of a page whose largest line is not large enough to be a header
BodyPage == << [text |-> <<"x">>, fontSize |-> 10], [text |-> <<"H">>, fontSize |-> 11] >>

\* a page with the header A above a body line
PageA == << [text |-> <<"x">>, fontSize |-> 10], [text |-> <<"A">>, fontSize |-> 20] >>

\* a title-only page with the header B
PageB == << [text |-> <<"B">>, fontSize |-> 10], [text |-> <<" ">>, fontSize |-> 8] >>

\* what getTextContent may return for a page
PageKinds == {BodyPage, PageA, PageB}

\* the width, in tenths, of a page at scale 1.0
PageWidths == {6125}

BasePath == <<"f">>

FileName == <<"#", "a", "#", " ", "b", ".", "p", "d", "f">>

ScrollValues == {0, 1}

SettingsSpace ==
    [enableHeaders            : BOOLEAN,
     headerSize               : {<<"#">>},
     headerExtractionSensitive: {12},
     removeHeaderDuplicates   : BOOLEAN,
     imageResolution          : {10},
     imageSeparator           : 0..3,
     insertionMethod          : {"Procedural", "Batch"},
     maxConcurrentPages       : (-1)..MaxLimit,
     imageType                : {<<"w", "e", "b", "p">>}]

\* sensitivity and resolution in tenths
DEFAULT_SETTINGS ==
    [enableHeaders             |-> FALSE,
     headerSize                |-> <<"#">>,
     headerExtractionSensitive |-> 12,
     removeHeaderDuplicates    |-> FALSE,
     imageResolution           |-> 10,
     imageSeparator            |-> 0,
     insertionMethod           |-> "Procedural",
     maxConcurrentPages        |-> 50,
     imageType                 |-> <<"w", "e", "b", "p">>]

\* the note, its cursor and scroll offset, the folders already in the vault,
\* the scale chosen in the modal and the separator setting of a run
Environments ==
    { [text |-> <<>>, cursor |-> [line |-> 0, ch |-> 0], scroll |-> 0, folders |-> {},
       imageQuality |-> 10, imageSeparator |-> 0],
      [text |-> <<"n", "\n", "m">>, cursor |-> [line |-> 1, ch |-> 0], scroll |-> 1,
       folders |-> {0}, imageQuality |-> 5, imageSeparator |-> 3] }

VARIABLES
    settings, imageQuality,                 \* the arguments of the run
    vault, editorText, editorCursor, editorScroll,   \* storage and editor
    pc, totalPages, initialCursor, insertPosition, folderIndex, folderPath,
    imageLinks, CONCURRENCY_LIMIT, completedPages, lastExtractedHeader,
    progressNotice, i, chunkPromises, chunkResults, k, scrollInfo,   \* locals of process
    task, held, results, rejection,         \* the page tasks
    notices,                                \* the final notices shown
    handed, outOfOrder,                     \* history: links handed on; a page finished before an earlier one
    callArgs, callResult,                   \* a call of a function of utils: arguments, returned value
    other                                   \* a second run of process on a file of the same name

vars == <<settings, imageQuality, vault, editorText, editorCursor, editorScroll,
          pc, totalPages, initialCursor, insertPosition, folderIndex, folderPath,
          imageLinks, CONCURRENCY_LIMIT, completedPages, lastExtractedHeader,
          progressNotice, i, chunkPromises, chunkResults, k, scrollInfo,
          task, held, results, rejection, notices, handed, outOfOrder,
          callArgs, callResult, other>>

inputVars == <<settings, imageQuality>>

callVars == <<callArgs, callResult>>

editorVars == <<editorText, editorCursor, editorScroll>>

setupVars == <<totalPages, initialCursor, folderIndex, folderPath, CONCURRENCY_LIMIT, scrollInfo>>

Pages == 1..MaxPages

\* the locals of process and the page tasks when process is entered
ProcessEntry ==
    /\ pc = "start"
    /\ totalPages = 0
    /\ initialCursor = [line |-> 0, ch |-> 0]
    /\ insertPosition = [line |-> 0, ch |-> 0]
    /\ folderIndex = 0
    /\ folderPath = <<>>
    /\ imageLinks = <<>>
    /\ CONCURRENCY_LIMIT = 0
    /\ completedPages = 0
    /\ lastExtractedHeader = <<>>
    /\ progressNotice = [created |-> FALSE, visible |-> FALSE, message |-> 0]
    /\ i = 1
    /\ chunkPromises = <<>>
    /\ chunkResults = <<>>
    /\ k = 1
    /\ scrollInfo = 0
    /\ task = [p \in Pages |-> "idle"]
    /\ held = {}
    /\ results = <<>>
    /\ rejection = <<>>
    /\ notices = <<>>
    /\ handed = <<>>
    /\ outOfOrder = FALSE

\* the note and the run's arguments as the environment env gives them
EditorOf(env) ==
    /\ imageQuality = env.imageQuality
    /\ settings.imageSeparator = env.imageSeparator
    /\ editorText = env.text
    /\ editorCursor = env.cursor
    /\ editorScroll = env.scroll

\* the locals of a second run that has not been started
NoRun ==
    [pc |-> "off", folderIndex |-> 0, folderPath |-> <<>>, created |-> FALSE,
     notices |-> <<>>, written |-> {}]

\* process runs once
SingleRun == other = NoRun

\* no function of utils is called from outside process
NoCall == callArgs = <<>> /\ callResult = <<>>

Init ==
    /\ settings \in SettingsSpace
    /\ \E env \in Environments :
          /\ EditorOf(env)
          /\ vault = {FolderPathFor(BasePath, FileName, n) : n \in env.folders}
    /\ ProcessEntry
    /\ NoCall
    /\ SingleRun

(***************************************************************************)
(* process: loading the document and setting up the folder.                *)
(***************************************************************************)
\* lines 370-381: the document loads with its number of pages, or getDocument
\* rejects
LoadDocument ==
    /\ pc = "start"
    /\ \E ok \in BOOLEAN, numPages \in 1..MaxPages :
          IF ok
          THEN /\ totalPages' = numPages
               /\ initialCursor' = editorCursor
               /\ insertPosition' = editorCursor
               /\ folderIndex' = 0
               /\ folderPath' = FolderPathFor(BasePath, FileName, 0)
               /\ pc' = "exists"
          ELSE /\ pc' = "catch"
               /\ UNCHANGED <<totalPages, initialCursor, insertPosition, folderIndex, folderPath>>
    /\ UNCHANGED <<inputVars, callVars, other, vault, editorVars, imageLinks, CONCURRENCY_LIMIT, scrollInfo,
                   completedPages, lastExtractedHeader, progressNotice, i, chunkPromises,
                   chunkResults, k, task, held, results, rejection, notices, handed, outOfOrder>>

\* variant: the existence test is an if, not a while
CheckExistsOnce ==
    /\ pc = "exists"
    /\ IF folderPath \in vault
       THEN /\ folderIndex' = folderIndex + 1
            /\ folderPath' = FolderPathFor(BasePath, FileName, folderIndex + 1)
       ELSE UNCHANGED <<folderIndex, folderPath>>
    /\ pc' = "createFolder"
    /\ UNCHANGED <<inputVars, callVars, other, vault, editorVars, totalPages, initialCursor,
                   insertPosition, imageLinks, CONCURRENCY_LIMIT, completedPages,
                   lastExtractedHeader, progressNotice, i, chunkPromises, chunkResults, k,
                   scrollInfo, task, held, results, rejection, notices, handed, outOfOrder>>

\* lines 384-387: one test of the while loop
CheckExists ==
    /\ pc = "exists"
    /\ IF folderPath \in vault
       THEN /\ folderIndex' = folderIndex + 1
            /\ folderPath' = FolderPathFor(BasePath, FileName, folderIndex + 1)
            /\ pc' = pc
       ELSE /\ pc' = "createFolder"
            /\ UNCHANGED <<folderIndex, folderPath>>
    /\ UNCHANGED <<inputVars, callVars, other, vault, editorVars, totalPages, initialCursor, insertPosition,
                   imageLinks, CONCURRENCY_LIMIT, completedPages, lastExtractedHeader,
                   progressNotice, i, chunkPromises, chunkResults, k, scrollInfo, task, held,
                   results, rejection, notices, handed, outOfOrder>>

\* lines 388-403: the folder is created (or createFolder rejects) and the
\* locals of the page loop are set up
CreateFolder ==
    /\ pc = "createFolder"
    /\ \E ok \in BOOLEAN :
          IF ok /\ folderPath \notin vault
          THEN /\ vault' = vault \cup {folderPath}
               /\ imageLinks' = <<>>
               /\ CONCURRENCY_LIMIT' = ConcurrencyLimit(totalPages, settings.maxConcurrentPages)
               /\ completedPages' = 0
               /\ lastExtractedHeader' = <<>>
               /\ progressNotice' = [created |-> TRUE, visible |-> TRUE, message |-> 0]
               /\ i' = 1
               /\ pc' = "launch"
          ELSE /\ pc' = "catch"
               /\ UNCHANGED <<vault, imageLinks, CONCURRENCY_LIMIT, completedPages,
                              lastExtractedHeader, progressNotice, i>>
    /\ UNCHANGED <<inputVars, callVars, other, editorVars, totalPages, initialCursor, insertPosition,
                   folderIndex, folderPath, chunkPromises, chunkResults, k, scrollInfo, task,
                   held, results, rejection, notices, handed, outOfOrder>>

(***************************************************************************)
(* processSinglePage: one action per continuation of a page task.  A task  *)
(* runs only while process is suspended (at the join) or has ended.        *)
(***************************************************************************)
TasksMayRun == pc \in {"join", "done"}

\* the promise of page p rejects; Promise.all keeps the first rejection
Fail(p) ==
    /\ task' = [task EXCEPT ![p] = "failed"]
    /\ rejection' = IF rejection = <<>> THEN <<p>> ELSE rejection

\* lines 407-423: getPage resolves (or rejects); the canvas context is
\* acquired (or is null) and the render starts
GetPageDone(p) ==
    /\ TasksMayRun
    /\ task[p] = "getPage"
    /\ \E outcome \in {"ok", "rejected", "noContext"} :
          CASE outcome = "ok" ->
                  /\ held' = held \cup {p}
                  /\ task' = [task EXCEPT ![p] = "render"]
                  /\ UNCHANGED rejection
            [] outcome = "noContext" ->
                  /\ held' = held \cup {p}
                  /\ Fail(p)
            [] OTHER ->
                  /\ UNCHANGED held
                  /\ Fail(p)
    /\ UNCHANGED <<inputVars, callVars, other, vault, editorVars, pc, setupVars, insertPosition, imageLinks,
                   completedPages, lastExtractedHeader, progressNotice, i, chunkPromises,
                   chunkResults, k, results, notices, handed, outOfOrder>>

\* lines 423-428: the render resolves (or rejects) and toBlob is called
RenderDone(p) ==
    /\ TasksMayRun
    /\ task[p] = "render"
    /\ \E ok \in BOOLEAN :
          IF ok THEN task' = [task EXCEPT ![p] = "toBlob"] /\ UNCHANGED rejection
          ELSE Fail(p)
    /\ UNCHANGED <<inputVars, callVars, other, vault, editorVars, pc, setupVars, insertPosition, imageLinks,
                   completedPages, lastExtractedHeader, progressNotice, i, chunkPromises,
                   chunkResults, k, held, results, notices, handed, outOfOrder>>

\* lines 426-439: the blob arrives (or toBlob fails); page.cleanup() and the
\* canvas reset release the page's resources
BlobDone(p) ==
    /\ TasksMayRun
    /\ task[p] = "toBlob"
    /\ \E ok \in BOOLEAN :
          IF ok
          THEN /\ held' = held \ {p}
               /\ task' = [task EXCEPT ![p] = "arrayBuffer"]
               /\ UNCHANGED rejection
          ELSE /\ UNCHANGED held
               /\ Fail(p)
    /\ UNCHANGED <<inputVars, callVars, other, vault, editorVars, pc, setupVars, insertPosition, imageLinks,
                   completedPages, lastExtractedHeader, progressNotice, i, chunkPromises,
                   chunkResults, k, results, notices, handed, outOfOrder>>

\* lines 439-442: blob.arrayBuffer() resolves and createBinary is called
BufferDone(p) ==
    /\ TasksMayRun
    /\ task[p] = "arrayBuffer"
    /\ task' = [task EXCEPT ![p] = "createBinary"]
    /\ UNCHANGED <<inputVars, callVars, other, vault, editorVars, pc, setupVars, insertPosition, imageLinks,
                   completedPages, lastExtractedHeader, progressNotice, i, chunkPromises,
                   chunkResults, k, held, results, rejection, notices, handed, outOfOrder>>

\* the result object of lines 455-462; the modal always passes imageQuality,
\* so that imageQuality ?? this.settings.imageResolution is imageQuality
ResultOf(p, rawHeader, width) ==
    [pageNum      |-> p,
     imagePath    |-> ImagePath(folderPath, p, settings.imageType),
     imageName    |-> ImageName(p, settings.imageType),
     rawHeader    |-> rawHeader,
     displayWidth |-> Round(width),
     qualityToUse |-> imageQuality]

\* variant: the progress message shows the number of the page that finished
ReturnShowsPageNumber(p, rawHeader) ==
    /\ completedPages' = p
    /\ progressNotice' = IF progressNotice.created
                         THEN [progressNotice EXCEPT !.message = p]
                         ELSE progressNotice
    /\ \E width \in PageWidths : results' = (p :> ResultOf(p, rawHeader, width)) @@ results
    /\ task' = [task EXCEPT ![p] = "done"]
    /\ outOfOrder' = (outOfOrder \/ \E n \in 1..Len(chunkPromises) :
                                        chunkPromises[n] < p /\ task[chunkPromises[n]] # "done")
    /\ UNCHANGED rejection

\* lines 450-462: the progress count and message, and the returned result
Return(p, rawHeader) ==
    /\ completedPages' = completedPages + 1
    /\ progressNotice' = IF progressNotice.created
                         THEN [progressNotice EXCEPT !.message = completedPages + 1]
                         ELSE progressNotice
    /\ \E width \in PageWidths : results' = (p :> ResultOf(p, rawHeader, width)) @@ results
    /\ task' = [task EXCEPT ![p] = "done"]
    /\ outOfOrder' = (outOfOrder \/ \E n \in 1..Len(chunkPromises) :
                                        chunkPromises[n] < p /\ task[chunkPromises[n]] # "done")
    /\ UNCHANGED rejection

\* WriteDone with the page task appending the path of its file to the link list
WriteDoneStoresLink(p) ==
    /\ TasksMayRun
    /\ task[p] = "createBinary"
    /\ LET path == ImagePath(folderPath, p, settings.imageType)
       IN  \E ok \in BOOLEAN :
              IF ok /\ path \notin vault
              THEN /\ vault' = vault \cup {path}
                   /\ imageLinks' = Append(imageLinks, path)
                   /\ IF settings.enableHeaders
                      THEN /\ task' = [task EXCEPT ![p] = "getTextContent"]
                           /\ UNCHANGED <<completedPages, progressNotice, results, rejection,
                                          outOfOrder>>
                      ELSE Return(p, <<>>)
              ELSE /\ UNCHANGED <<vault, completedPages, progressNotice, results, outOfOrder,
                                  imageLinks>>
                   /\ Fail(p)
    /\ UNCHANGED <<inputVars, callVars, other, editorVars, pc, setupVars, insertPosition,
                   lastExtractedHeader, i, chunkPromises, chunkResults, k, held, notices,
                   handed>>

\* lines 442-448: createBinary resolves with the file written (or rejects);
\* with headers enabled the text content is requested, otherwise the task ends
WriteDone(p) ==
    /\ TasksMayRun
    /\ task[p] = "createBinary"
    /\ LET path == ImagePath(folderPath, p, settings.imageType)
       IN  \E ok \in BOOLEAN :
              IF ok /\ path \notin vault
              THEN /\ vault' = vault \cup {path}
                   /\ IF settings.enableHeaders
                      THEN /\ task' = [task EXCEPT ![p] = "getTextContent"]
                           /\ UNCHANGED <<completedPages, progressNotice, results, rejection,
                                          outOfOrder>>
                      ELSE Return(p, <<>>)
              ELSE /\ UNCHANGED <<vault, completedPages, progressNotice, results, outOfOrder>>
                   /\ Fail(p)
    /\ UNCHANGED <<inputVars, callVars, other, editorVars, pc, setupVars, insertPosition, imageLinks,
                   lastExtractedHeader, i, chunkPromises, chunkResults, k, held, notices,
                   handed>>

\* TextDone with the duplicate rule applied inside the page task
TextDoneDedups(p) ==
    /\ TasksMayRun
    /\ task[p] = "getTextContent"
    /\ \E ok \in BOOLEAN, page \in PageKinds :
          IF ok
          THEN LET step == DedupStep(extractHeader(page, settings.headerExtractionSensitive),
                                     lastExtractedHeader, settings.removeHeaderDuplicates)
               IN  /\ Return(p, step.finalHeader)
                   /\ lastExtractedHeader' = step.last
          ELSE /\ UNCHANGED <<completedPages, progressNotice, results, outOfOrder,
                              lastExtractedHeader>>
               /\ Fail(p)
    /\ UNCHANGED <<inputVars, callVars, other, vault, editorVars, pc, setupVars, insertPosition, imageLinks,
                   i, chunkPromises, chunkResults, k, held, notices, handed>>

\* lines 447-462: getTextContent resolves (or rejects) and extractHeader
\* returns the raw header
TextDone(p) ==
    /\ TasksMayRun
    /\ task[p] = "getTextContent"
    /\ \E ok \in BOOLEAN, page \in PageKinds :
          IF ok
          THEN Return(p, extractHeader(page, settings.headerExtractionSensitive))
          ELSE /\ UNCHANGED <<completedPages, progressNotice, results, outOfOrder>>
               /\ Fail(p)
    /\ UNCHANGED <<inputVars, callVars, other, vault, editorVars, pc, setupVars, insertPosition, imageLinks,
                   lastExtractedHeader, i, chunkPromises, chunkResults, k, held, notices,
                   handed>>

(***************************************************************************)
(* process: the chunk loop, the insertion and the end of the run.          *)
(***************************************************************************)
\* lines 466-475: the loop test; the page tasks of the chunk are started and
\* process waits for Promise.all
LaunchChunk ==
    /\ pc = "launch"
    /\ IF i <= totalPages
       THEN /\ chunkPromises' = ChunkFrom(i, 0, CONCURRENCY_LIMIT, totalPages)
            /\ task' = [p \in Pages |->
                          IF \E n \in 1..Len(chunkPromises') : chunkPromises'[n] = p
                          THEN "getPage" ELSE task[p]]
            /\ pc' = "join"
       ELSE /\ pc' = "batch"
            /\ UNCHANGED <<chunkPromises, task>>
    /\ UNCHANGED <<inputVars, callVars, other, vault, editorVars, setupVars, insertPosition, imageLinks,
                   completedPages, lastExtractedHeader, progressNotice, i, chunkResults, k,
                   held, results, rejection, notices, handed, outOfOrder>>

\* variant: the tracked header is declared inside the chunk loop
JoinForgetsHeader ==
    /\ pc = "join"
    /\ \A n \in 1..Len(chunkPromises) : task[chunkPromises[n]] = "done"
    /\ chunkResults' = ChunkResults(chunkPromises)
    /\ k' = 1
    /\ pc' = "post"
    /\ lastExtractedHeader' = <<>>
    /\ UNCHANGED <<inputVars, callVars, other, vault, editorVars, setupVars, insertPosition, imageLinks,
                   completedPages, progressNotice, i, chunkPromises,
                   task, held, results, rejection, notices, handed, outOfOrder>>

\* line 475: every promise of the chunk is fulfilled
Join ==
    /\ pc = "join"
    /\ \A n \in 1..Len(chunkPromises) : task[chunkPromises[n]] = "done"
    /\ chunkResults' = ChunkResults(chunkPromises)
    /\ k' = 1
    /\ pc' = "post"
    /\ UNCHANGED <<inputVars, callVars, other, vault, editorVars, setupVars, insertPosition, imageLinks,
                   completedPages, lastExtractedHeader, progressNotice, i, chunkPromises,
                   task, held, results, rejection, notices, handed, outOfOrder>>

\* variant: the rejection is caught inside the loop, which goes on
RejectContinues ==
    /\ pc = "join"
    /\ rejection # <<>>
    /\ chunkResults' = <<>>
    /\ k' = 1
    /\ rejection' = <<>>
    /\ pc' = "post"
    /\ UNCHANGED <<inputVars, callVars, other, vault, editorVars, setupVars, insertPosition, imageLinks,
                   completedPages, lastExtractedHeader, progressNotice, i, chunkPromises,
                   task, held, results, notices, handed, outOfOrder>>

\* line 475: a promise of the chunk was rejected, the await throws
Reject ==
    /\ pc = "join"
    /\ rejection # <<>>
    /\ pc' = "catch"
    /\ UNCHANGED <<inputVars, callVars, other, vault, editorVars, setupVars, insertPosition, imageLinks,
                   completedPages, lastExtractedHeader, progressNotice, i, chunkPromises,
                   chunkResults, k, task, held, results, rejection, notices, handed, outOfOrder>>

\* variant: the link is inserted at once with the Batch method too
PostProcessInsertsAlways ==
    /\ pc = "post"
    /\ k <= Len(chunkResults)
    /\ LET result == results[chunkResults[k]]
           dedup  == DedupStep(result.rawHeader, lastExtractedHeader,
                               settings.enableHeaders /\ settings.removeHeaderDuplicates)
           link   == BuildLink(result, dedup.finalHeader, settings.headerSize)
           ins    == insertImageLink(editorText, insertPosition, link, settings.imageSeparator)
       IN  /\ lastExtractedHeader' = dedup.last
           /\ handed' = Append(handed, [pageNum |-> result.pageNum,
                                        finalHeader |-> dedup.finalHeader, link |-> link])
           /\ imageLinks' = IF settings.insertionMethod = "Procedural" THEN imageLinks
                             ELSE Append(imageLinks, link)
           /\ \E ok \in BOOLEAN :
                 IF ok
                 THEN /\ editorText' = ins.text
                      /\ insertPosition' = ins.position
                      /\ editorScroll' \in ScrollValues
                      /\ k' = k + 1
                      /\ pc' = pc
                 ELSE /\ pc' = "catch"
                      /\ UNCHANGED <<editorText, insertPosition, editorScroll, k>>
    /\ UNCHANGED <<inputVars, callVars, other, vault, editorCursor, setupVars, completedPages, progressNotice,
                   i, chunkPromises, chunkResults, task, held, results, rejection, notices,
                   outOfOrder>>

\* lines 478-506: one iteration of the post-processing loop; replaceRange may
\* throw and may move the view
PostProcess ==
    /\ pc = "post"
    /\ k <= Len(chunkResults)
    /\ LET result == results[chunkResults[k]]
           dedup  == DedupStep(result.rawHeader, lastExtractedHeader,
                               settings.enableHeaders /\ settings.removeHeaderDuplicates)
           link   == BuildLink(result, dedup.finalHeader, settings.headerSize)
           ins    == insertImageLink(editorText, insertPosition, link, settings.imageSeparator)
       IN  /\ lastExtractedHeader' = dedup.last
           /\ handed' = Append(handed, [pageNum |-> result.pageNum,
                                        finalHeader |-> dedup.finalHeader, link |-> link])
           /\ IF settings.insertionMethod = "Procedural"
              THEN /\ UNCHANGED imageLinks
                   /\ \E ok \in BOOLEAN :
                         IF ok
                         THEN /\ editorText' = ins.text
                              /\ insertPosition' = ins.position
                              /\ editorScroll' \in ScrollValues
                              /\ k' = k + 1
                              /\ pc' = pc
                         ELSE /\ pc' = "catch"
                              /\ UNCHANGED <<editorText, insertPosition, editorScroll, k>>
              ELSE /\ imageLinks' = Append(imageLinks, link)
                   /\ k' = k + 1
                   /\ UNCHANGED <<editorText, insertPosition, editorScroll, pc>>
    /\ UNCHANGED <<inputVars, callVars, other, vault, editorCursor, setupVars, completedPages, progressNotice,
                   i, chunkPromises, chunkResults, task, held, results, rejection, notices,
                   outOfOrder>>

\* variant: the loop advances by one page (i++)
NextChunkByOne ==
    /\ pc = "post"
    /\ k > Len(chunkResults)
    /\ i + CONCURRENCY_LIMIT > -MaxSpin
    /\ i' = i + 1
    /\ pc' = "launch"
    /\ UNCHANGED <<inputVars, callVars, other, vault, editorVars, setupVars, insertPosition, imageLinks,
                   completedPages, lastExtractedHeader, progressNotice, chunkPromises,
                   chunkResults, k, task, held, results, rejection, notices, handed, outOfOrder>>

\* line 466: i += CONCURRENCY_LIMIT
NextChunk ==
    /\ pc = "post"
    /\ k > Len(chunkResults)
    /\ i + CONCURRENCY_LIMIT > -MaxSpin
    /\ i' = i + CONCURRENCY_LIMIT
    /\ pc' = "launch"
    /\ UNCHANGED <<inputVars, callVars, other, vault, editorVars, setupVars, insertPosition, imageLinks,
                   completedPages, lastExtractedHeader, progressNotice, chunkPromises,
                   chunkResults, k, task, held, results, rejection, notices, handed, outOfOrder>>

\* variant: the batch text ends with a separator as well
BatchInsertTrailingSeparator ==
    /\ pc = "batch"
    /\ IF settings.insertionMethod = "Batch"
       THEN LET separator     == imageSeparator(settings.imageSeparator)
                allImageLinks == join(imageLinks, separator) \o separator
            IN  \E ok \in BOOLEAN :
                   IF ok
                   THEN /\ scrollInfo' = editorScroll
                        /\ editorText' = replaceRange(editorText, allImageLinks, initialCursor)
                        /\ editorScroll' \in ScrollValues
                        /\ pc' = "scrollTo"
                   ELSE /\ pc' = "catch"
                        /\ UNCHANGED <<editorText, editorScroll, scrollInfo>>
       ELSE /\ pc' = "complete"
            /\ UNCHANGED <<editorText, editorScroll, scrollInfo>>
    /\ UNCHANGED <<inputVars, callVars, other, vault, editorCursor, totalPages, initialCursor, folderIndex,
                   folderPath, CONCURRENCY_LIMIT, insertPosition, imageLinks,
                   completedPages, lastExtractedHeader, progressNotice, i, chunkPromises,
                   chunkResults, k, task, held, results, rejection, notices, handed, outOfOrder>>

\* lines 510-515: with the Batch method the links are joined and inserted at
\* the initial cursor; replaceRange may throw and may move the view
BatchInsert ==
    /\ pc = "batch"
    /\ IF settings.insertionMethod = "Batch"
       THEN LET separator     == imageSeparator(settings.imageSeparator)
                allImageLinks == join(imageLinks, separator)
            IN  \E ok \in BOOLEAN :
                   IF ok
                   THEN /\ scrollInfo' = editorScroll
                        /\ editorText' = replaceRange(editorText, allImageLinks, initialCursor)
                        /\ editorScroll' \in ScrollValues
                        /\ pc' = "scrollTo"
                   ELSE /\ pc' = "catch"
                        /\ UNCHANGED <<editorText, editorScroll, scrollInfo>>
       ELSE /\ pc' = "complete"
            /\ UNCHANGED <<editorText, editorScroll, scrollInfo>>
    /\ UNCHANGED <<inputVars, callVars, other, vault, editorCursor, totalPages, initialCursor, folderIndex,
                   folderPath, CONCURRENCY_LIMIT, insertPosition, imageLinks,
                   completedPages, lastExtractedHeader, progressNotice, i, chunkPromises,
                   chunkResults, k, task, held, results, rejection, notices, handed, outOfOrder>>

\* variant: the view is scrolled to the top
ScrollToOrigin ==
    /\ pc = "scrollTo"
    /\ editorScroll' = 0
    /\ pc' = "complete"
    /\ UNCHANGED <<inputVars, callVars, other, vault, editorText, editorCursor, setupVars,
                   insertPosition, imageLinks, completedPages, lastExtractedHeader,
                   progressNotice, i, chunkPromises, chunkResults, k, task, held, results,
                   rejection, notices, handed, outOfOrder>>

\* line 516: editor.scrollTo(scrollInfo.left, scrollInfo.top)
ScrollTo ==
    /\ pc = "scrollTo"
    /\ editorScroll' = scrollInfo
    /\ pc' = "complete"
    /\ UNCHANGED <<inputVars, callVars, other, vault, editorText, editorCursor, setupVars, insertPosition,
                   imageLinks, completedPages, lastExtractedHeader, progressNotice, i,
                   chunkPromises, chunkResults, k, task, held, results, rejection, notices,
                   handed, outOfOrder>>

\* line 519: the completion notice
Complete ==
    /\ pc = "complete"
    /\ notices' = Append(notices, "complete")
    /\ pc' = "finally"
    /\ UNCHANGED <<inputVars, callVars, other, vault, editorVars, setupVars, insertPosition, imageLinks,
                   completedPages, lastExtractedHeader, progressNotice, i, chunkPromises,
                   chunkResults, k, task, held, results, rejection, handed, outOfOrder>>

\* variant: the catch block inserts the links collected so far
CatchFlushesLinks ==
    /\ pc = "catch"
    /\ notices' = Append(notices, "failed")
    /\ pc' = "finally"
    /\ editorText' = replaceRange(editorText,
                                  join(imageLinks, imageSeparator(settings.imageSeparator)),
                                  initialCursor)
    /\ UNCHANGED <<inputVars, callVars, other, vault, editorCursor, editorScroll, setupVars,
                   insertPosition, imageLinks,
                   completedPages, lastExtractedHeader, progressNotice, i, chunkPromises,
                   chunkResults, k, task, held, results, rejection, handed, outOfOrder>>

\* lines 521-523: the failure notice
Catch ==
    /\ pc = "catch"
    /\ notices' = Append(notices, "failed")
    /\ pc' = "finally"
    /\ UNCHANGED <<inputVars, callVars, other, vault, editorVars, setupVars, insertPosition, imageLinks,
                   completedPages, lastExtractedHeader, progressNotice, i, chunkPromises,
                   chunkResults, k, task, held, results, rejection, handed, outOfOrder>>

\* variant: the completion notice is shown after the try statement
FinallyAnnounces ==
    /\ pc = "finally"
    /\ progressNotice' = IF progressNotice.created
                         THEN [progressNotice EXCEPT !.visible = FALSE]
                         ELSE progressNotice
    /\ notices' = Append(notices, "complete")
    /\ pc' = "done"
    /\ UNCHANGED <<inputVars, callVars, other, vault, editorVars, setupVars, insertPosition, imageLinks,
                   completedPages, lastExtractedHeader, i, chunkPromises, chunkResults, k,
                   task, held, results, rejection, handed, outOfOrder>>

\* variant: the progress notice is hidden at the end of the try block only
FinallyOnSuccess ==
    /\ pc = "finally"
    /\ progressNotice' = IF progressNotice.created /\ notices = <<"complete">>
                         THEN [progressNotice EXCEPT !.visible = FALSE]
                         ELSE progressNotice
    /\ pc' = "done"
    /\ UNCHANGED <<inputVars, callVars, other, vault, editorVars, setupVars, insertPosition, imageLinks,
                   completedPages, lastExtractedHeader, i, chunkPromises, chunkResults, k,
                   task, held, results, rejection, notices, handed, outOfOrder>>

\* lines 524-528: the progress notice is hidden
Finally ==
    /\ pc = "finally"
    /\ progressNotice' = IF progressNotice.created
                         THEN [progressNotice EXCEPT !.visible = FALSE]
                         ELSE progressNotice
    /\ pc' = "done"
    /\ UNCHANGED <<inputVars, callVars, other, vault, editorVars, setupVars, insertPosition, imageLinks,
                   completedPages, lastExtractedHeader, i, chunkPromises, chunkResults, k,
                   task, held, results, rejection, notices, handed, outOfOrder>>

PageStep(p) ==
    \/ GetPageDone(p)
    \/ RenderDone(p)
    \/ BlobDone(p)
    \/ BufferDone(p)
    \/ WriteDone(p)
    \/ TextDone(p)

Next ==
    \/ LoadDocument
    \/ CheckExists
    \/ CreateFolder
    \/ LaunchChunk
    \/ Join
    \/ Reject
    \/ PostProcess
    \/ NextChunk
    \/ BatchInsert
    \/ ScrollTo
    \/ Complete
    \/ Catch
    \/ Finally
    \/ \E p \in Pages : PageStep(p)

Spec == Init /\ [][Next]_vars

(***************************************************************************)
(* extractHeader alone, over the pages of up to MaxFragments text items.   *)
(***************************************************************************)
TitleText == <<"T", "i", "t", "l", "e">>

\* item.str: empty, white space only, and two visible texts
FragmentTexts == {<<>>, <<" ">>, TitleText, <<"x", " ">>}

\* item.transform[0]: negative for mirrored and 0 for upright rotated text
FontSizes == {-10, 0, 10, 20}

Fragments == [text : FragmentTexts, fontSize : FontSizes]

HeaderPages == UNION {[1..n -> Fragments] : n \in 0..MaxFragments}

\* headerExtractionSensitive in tenths: 0, 1.2 (the default) and 2.0
Sensitivities == {0, 12, 20}

\* nothing of a run has happened and no folder exists
Idle ==
    /\ settings = DEFAULT_SETTINGS
    /\ \E env \in Environments : EditorOf(env)
    /\ vault = {}
    /\ ProcessEntry
    /\ SingleRun

HeaderInit ==
    /\ Idle
    /\ callArgs \in [page : HeaderPages, headerExtractionSensitiveSetting : Sensitivities]
    /\ callResult = <<>>

\* the call returns; the returned string h is kept as <<h>>
CallExtractHeader ==
    /\ callResult = <<>>
    /\ callResult' = <<extractHeader(callArgs.page, callArgs.headerExtractionSensitiveSetting)>>
    /\ UNCHANGED <<inputVars, callArgs, other, vault, editorVars, pc, setupVars, insertPosition,
                   imageLinks, completedPages, lastExtractedHeader, progressNotice, i,
                   chunkPromises, chunkResults, k, task, held, results, rejection, notices,
                   handed, outOfOrder>>

HeaderNext == CallExtractHeader

HeaderSpec == HeaderInit /\ [][HeaderNext]_vars

(***************************************************************************)
(* Runs of process under every value data.json may hold for the separator  *)
(* setting, with both insertion methods.                                   *)
(***************************************************************************)
\* the values of the dropdown (0..3) and one stored value on either side
SeparatorSettings == (-1)..4

SeparatorInit ==
    /\ settings \in {[DEFAULT_SETTINGS EXCEPT !.enableHeaders = TRUE,
                                              !.imageSeparator = s,
                                              !.insertionMethod = m,
                                              !.maxConcurrentPages = 1] :
                        s \in SeparatorSettings, m \in {"Procedural", "Batch"}}
    /\ \E env \in Environments :
          /\ imageQuality = env.imageQuality
          /\ editorText = env.text
          /\ editorCursor = env.cursor
          /\ editorScroll = env.scroll
          /\ vault = {FolderPathFor(BasePath, FileName, n) : n \in env.folders}
    /\ ProcessEntry
    /\ NoCall
    /\ SingleRun

SeparatorSpec == SeparatorInit /\ [][Next]_vars

(***************************************************************************)
(* Runs of process during which the settings tab is used: the processor    *)
(* holds the settings object of the plugin, which the tab assigns to.      *)
(***************************************************************************)
\* the onChange handler of the insertion method dropdown, run while process
\* is suspended at an await or has ended; saveSettings writes data.json only
ChangeInsertionMethod ==
    /\ pc \in {"start", "exists", "createFolder", "join", "done"}
    /\ \E value \in {"Procedural", "Batch"} :
          /\ value # settings.insertionMethod
          /\ settings' = [settings EXCEPT !.insertionMethod = value]
    /\ UNCHANGED <<imageQuality, callVars, other, vault, editorVars, pc, setupVars, insertPosition,
                   imageLinks, completedPages, lastExtractedHeader, progressNotice, i,
                   chunkPromises, chunkResults, k, task, held, results, rejection, notices,
                   handed, outOfOrder>>

MethodNext ==
    \/ Next
    \/ ChangeInsertionMethod

MethodSpec == Init /\ [][MethodNext]_vars

(***************************************************************************)
(* Runs of process during which the user edits the note: process captures  *)
(* the cursor once and keeps the insert position as a line and a column.   *)
(***************************************************************************)
\* what the user types at the start of the note: a character, or a character
\* and a line break
UserTexts == {<<"u">>, <<"u", "\n">>}

\* the number of edits made, read off the typed characters in the note
TypedCount(text) == Cardinality({n \in 1..Len(text) : text[n] = "u"})

\* variant: the insert position of the run is moved along with the edit
UserEditTracked ==
    /\ pc \in {"exists", "createFolder", "join"}
    /\ \/ /\ TypedCount(editorText) < MaxEdits
          /\ \E typed \in UserTexts :
                /\ editorText' = typed \o editorText
                /\ editorCursor' = offsetToPos(typed \o editorText, Len(typed))
                /\ insertPosition' = offsetToPos(typed \o editorText,
                                         posToOffset(editorText, insertPosition) + Len(typed))
       \/ /\ editorText # <<>>
          /\ editorText[1] = "n"
          /\ editorText' = Tail(editorText)
          /\ editorCursor' = [line |-> 0, ch |-> 0]
          /\ insertPosition' = offsetToPos(Tail(editorText),
                                   IF posToOffset(editorText, insertPosition) = 0 THEN 0
                                   ELSE posToOffset(editorText, insertPosition) - 1)
    /\ UNCHANGED <<inputVars, callVars, other, vault, editorScroll, pc, setupVars, imageLinks,
                   completedPages, lastExtractedHeader, progressNotice, i, chunkPromises,
                   chunkResults, k, task, held, results, rejection, notices, handed,
                   outOfOrder>>

\* an editor transaction of the user while process is suspended at an await
\* after it captured the cursor: text typed at the start of the note, or the
\* first character of the note deleted; the cursor goes where the edit ends
UserEdit ==
    /\ pc \in {"exists", "createFolder", "join"}
    /\ \/ /\ TypedCount(editorText) < MaxEdits
          /\ \E typed \in UserTexts :
                /\ editorText' = typed \o editorText
                /\ editorCursor' = offsetToPos(typed \o editorText, Len(typed))
       \/ /\ editorText # <<>>
          /\ editorText[1] = "n"
          /\ editorText' = Tail(editorText)
          /\ editorCursor' = [line |-> 0, ch |-> 0]
    /\ UNCHANGED <<inputVars, callVars, other, vault, editorScroll, pc, setupVars, insertPosition,
                   imageLinks, completedPages, lastExtractedHeader, progressNotice, i,
                   chunkPromises, chunkResults, k, task, held, results, rejection, notices,
                   handed, outOfOrder>>

EditInit ==
    /\ settings \in {[DEFAULT_SETTINGS EXCEPT !.enableHeaders = TRUE,
                                              !.imageSeparator = env.imageSeparator,
                                              !.insertionMethod = m,
                                              !.maxConcurrentPages = 1] :
                        env \in Environments, m \in {"Procedural", "Batch"}}
    /\ \E env \in Environments :
          /\ EditorOf(env)
          /\ vault = {FolderPathFor(BasePath, FileName, n) : n \in env.folders}
    /\ ProcessEntry
    /\ NoCall
    /\ SingleRun

EditNext ==
    \/ Next
    \/ UserEdit

EditSpec == EditInit /\ [][EditNext]_vars

(***************************************************************************)
(* Two runs of process on files of the same cleaned name in one vault.  The *)
(* first run is process as above; of the second run the folder setup, the  *)
(* write of its first image and its final notice are kept.                 *)
(***************************************************************************)
\* the second run's continuations run while the first run is suspended at an
\* await or has ended
FirstSuspended == pc \in {"start", "exists", "createFolder", "join", "done"}

OtherFrame ==
    UNCHANGED <<inputVars, callArgs, callResult, editorVars, pc, setupVars, insertPosition,
                imageLinks, completedPages, lastExtractedHeader, progressNotice, i,
                chunkPromises, chunkResults, k, task, held, results, rejection, notices,
                handed, outOfOrder>>

\* lines 370-381: the document loads and the first folder path is built
OtherLoad ==
    /\ FirstSuspended
    /\ other.pc = "start"
    /\ \E ok \in BOOLEAN :
          other' = IF ok
                   THEN [other EXCEPT !.pc = "exists",
                                      !.folderPath = FolderPathFor(BasePath, FileName, 0)]
                   ELSE [other EXCEPT !.pc = "done", !.notices = <<"failed">>]
    /\ UNCHANGED vault
    /\ OtherFrame

\* lines 384-387: one test of the while loop
OtherCheckExists ==
    /\ FirstSuspended
    /\ other.pc = "exists"
    /\ other' = IF other.folderPath \in vault
                THEN [other EXCEPT !.folderIndex = other.folderIndex + 1,
                                   !.folderPath = FolderPathFor(BasePath, FileName,
                                                                other.folderIndex + 1)]
                ELSE [other EXCEPT !.pc = "createFolder"]
    /\ UNCHANGED vault
    /\ OtherFrame

\* variant: createFolder succeeds on a path that exists
OtherCreateFolderOnExisting ==
    /\ FirstSuspended
    /\ other.pc = "createFolder"
    /\ \E ok \in BOOLEAN :
          IF ok
          THEN /\ vault' = vault \cup {other.folderPath}
               /\ other' = [other EXCEPT !.pc = "write", !.created = TRUE]
          ELSE /\ other' = [other EXCEPT !.pc = "done", !.notices = <<"failed">>]
               /\ UNCHANGED vault
    /\ OtherFrame

\* line 388 and 521-523: createFolder resolves, or rejects (it does on a path
\* that exists) and the failure notice is shown
OtherCreateFolder ==
    /\ FirstSuspended
    /\ other.pc = "createFolder"
    /\ \E ok \in BOOLEAN :
          IF ok /\ other.folderPath \notin vault
          THEN /\ vault' = vault \cup {other.folderPath}
               /\ other' = [other EXCEPT !.pc = "write", !.created = TRUE]
          ELSE /\ other' = [other EXCEPT !.pc = "done", !.notices = <<"failed">>]
               /\ UNCHANGED vault
    /\ OtherFrame

\* lines 437-442 and 519-523: the image of page 1 is written and the run
\* completes, or createBinary rejects and the failure notice is shown
OtherWrite ==
    /\ FirstSuspended
    /\ other.pc = "write"
    /\ LET path == ImagePath(other.folderPath, 1, settings.imageType)
       IN  \E ok \in BOOLEAN :
              IF ok /\ path \notin vault
              THEN /\ vault' = vault \cup {path}
                   /\ other' = [other EXCEPT !.pc = "done", !.notices = <<"complete">>,
                                             !.written = {path}]
              ELSE /\ other' = [other EXCEPT !.pc = "done", !.notices = <<"failed">>]
                   /\ UNCHANGED vault
    /\ OtherFrame

TwoRunInit ==
    /\ settings \in {[DEFAULT_SETTINGS EXCEPT !.enableHeaders = TRUE,
                                              !.maxConcurrentPages = 1,
                                              !.imageSeparator = env.imageSeparator,
                                              !.insertionMethod = m] :
                        env \in Environments, m \in {"Procedural", "Batch"}}
    /\ \E env \in Environments :
          /\ EditorOf(env)
          /\ vault = {FolderPathFor(BasePath, FileName, n) : n \in env.folders}
    /\ ProcessEntry
    /\ NoCall
    /\ other = [NoRun EXCEPT !.pc = "start"]

TwoRunNext ==
    \/ Next
    \/ OtherLoad
    \/ OtherCheckExists
    \/ OtherCreateFolder
    \/ OtherWrite

TwoRunSpec == TwoRunInit /\ [][TwoRunNext]_vars

(***************************************************************************)
(* extractHeader in floating-point arithmetic.  Font sizes are JavaScript  *)
(* numbers: every addition of the reduce and the division by lines.length  *)
(* is rounded to the nearest representable value, ties to even.  The       *)
(* format is scaled down to MantissaBits bits; extractHeader above is the  *)
(* case in which every operation is exact.                                 *)
(***************************************************************************)
\* the distance of neighbouring representable values at the integer v
RECURSIVE Ulp(_)
Ulp(v) == IF v < 2 ^ MantissaBits THEN 1 ELSE 2 * Ulp(v \div 2)

\* num / den rounded to the nearest representable value, ties to the even
\* mantissa, for values that are 0 or at least 2 ^ (MantissaBits - 1)
RoundFloat(num, den) ==
    LET unit == den * Ulp(num \div den)
        q    == num \div unit
        rem  == num % unit
    IN  IF 2 * rem < unit THEN q * Ulp(num \div den)
        ELSE IF 2 * rem > unit THEN (q + 1) * Ulp(num \div den)
        ELSE (IF q % 2 = 0 THEN q ELSE q + 1) * Ulp(num \div den)

\* lines.reduce((sum, line) => sum + line.fontSize, 0) over the first n lines
RECURSIVE ReduceFontSize(_, _)
ReduceFontSize(lines, n) ==
    IF n = 0 THEN 0
    ELSE RoundFloat(ReduceFontSize(lines, n - 1) + lines[n].fontSize, 1)

\* extractHeader with the rounded operations; the sensitivity is in tenths
extractHeaderRounded(page, headerExtractionSensitiveSetting) ==
    LET lines           == SortDesc(page)
        largestFontSize == IF lines = <<>> THEN 0 ELSE lines[1].fontSize
        IsHeaderLine(l) == l.fontSize = largestFontSize /\ Trim(l.text) # <<>>
        IsNonEmpty(l)   == Trim(l.text) # <<>>
        headerLines     == SelectSeq(lines, IsHeaderLine)
        header          == Trim(join([n \in 1..Len(headerLines) |-> headerLines[n].text], <<" ">>))
        nonEmptyLines   == SelectSeq(lines, IsNonEmpty)
        averageFontSize == RoundFloat(ReduceFontSize(lines, Len(lines)), Len(lines))
    IN  IF header = <<>> THEN <<>>
        ELSE IF Len(nonEmptyLines) > 0 /\ Len(headerLines) = Len(nonEmptyLines) THEN header
        ELSE IF largestFontSize
                    < RoundFloat(averageFontSize * headerExtractionSensitiveSetting, 10) THEN <<>>
        ELSE header

\* two neighbouring representable font sizes
FloatSizes == {2 ^ MantissaBits - 3, 2 ^ MantissaBits - 2}

FloatFragments == [text : {<<"T">>, <<" ">>}, fontSize : FloatSizes]

FloatPages == UNION {[1..n -> FloatFragments] : n \in 0..MaxFloatFragments}

\* headerExtractionSensitive in tenths: the ends of the range 0..1
LowSensitivities == {0, 10}

FloatInit ==
    /\ Idle
    /\ callArgs \in [page : FloatPages, headerExtractionSensitiveSetting : LowSensitivities]
    /\ callResult = <<>>

CallExtractHeaderRounded ==
    /\ callResult = <<>>
    /\ callResult' = <<extractHeaderRounded(callArgs.page,
                                            callArgs.headerExtractionSensitiveSetting)>>
    /\ UNCHANGED <<inputVars, callArgs, other, vault, editorVars, pc, setupVars, insertPosition,
                   imageLinks, completedPages, lastExtractedHeader, progressNotice, i,
                   chunkPromises, chunkResults, k, task, held, results, rejection, notices,
                   handed, outOfOrder>>

FloatNext == CallExtractHeaderRounded

FloatSpec == FloatInit /\ [][FloatNext]_vars

(***************************************************************************)
(* The settings form: the text field of the maximum of concurrent pages.   *)
(***************************************************************************)
IsDigit(c) == \E d \in 0..9 : Digit(d) = c

DigitValue(c) == CHOOSE d \in 0..9 : Digit(d) = c

\* the longest prefix of s that consists of digits
RECURSIVE DigitPrefix(_)
DigitPrefix(s) ==
    IF s # <<>> /\ IsDigit(Head(s)) THEN <<Head(s)>> \o DigitPrefix(Tail(s)) ELSE <<>>

RECURSIVE Decimal(_)
Decimal(digits) ==
    IF digits = <<>> THEN 0
    ELSE 10 * Decimal(SubSeq(digits, 1, Len(digits) - 1)) + DigitValue(digits[Len(digits)])

\* parseInt(value, 10): leading white space is skipped, a sign is read, then
\* the digits up to the first other character; NaN without a digit
parseInt(value) ==
    LET t      == TrimStart(value)
        signed == t # <<>> /\ Head(t) \in {"-", "+"}
        digits == DigitPrefix(IF signed THEN Tail(t) ELSE t)
    IN  IF digits = <<>> THEN [nan |-> TRUE, value |-> 0]
        ELSE [nan   |-> FALSE,
              value |-> IF signed /\ Head(t) = "-" THEN 0 - Decimal(digits) ELSE Decimal(digits)]

\* the characters typed into the field and the texts of up to MaxInput of them
InputChars == {"0", "5", "-", "a", " "}

InputTexts == UNION {[1..n -> InputChars] : n \in 0..MaxInput}

\* the form is open on the default settings and a text has been entered
FormInit ==
    /\ Idle
    /\ callArgs \in [value : InputTexts]
    /\ callResult = <<>>

\* variant: the test is intValue >= 0
OnChangeMaxConcurrentPagesAcceptsZero ==
    /\ callResult = <<>>
    /\ LET intValue == parseInt(callArgs.value)
           stored   == [settings EXCEPT !.maxConcurrentPages = intValue.value]
       IN  IF ~intValue.nan /\ intValue.value >= 0
           THEN /\ settings' = stored
                /\ callResult' = <<[saved |-> <<stored>>]>>
           ELSE /\ UNCHANGED settings
                /\ callResult' = <<[saved |-> <<>>]>>
    /\ UNCHANGED <<imageQuality, callArgs, other, vault, editorVars, pc, setupVars,
                   insertPosition, imageLinks, completedPages, lastExtractedHeader,
                   progressNotice, i, chunkPromises, chunkResults, k, task, held, results,
                   rejection, notices, handed, outOfOrder>>

\* the onChange handler of the field; callResult keeps the settings handed to
\* saveData by saveSettings
OnChangeMaxConcurrentPages ==
    /\ callResult = <<>>
    /\ LET intValue == parseInt(callArgs.value)
           stored   == [settings EXCEPT !.maxConcurrentPages = intValue.value]
       IN  IF ~intValue.nan /\ intValue.value > 0
           THEN /\ settings' = stored
                /\ callResult' = <<[saved |-> <<stored>>]>>
           ELSE /\ UNCHANGED settings
                /\ callResult' = <<[saved |-> <<>>]>>
    /\ UNCHANGED <<imageQuality, callArgs, other, vault, editorVars, pc, setupVars,
                   insertPosition, imageLinks, completedPages, lastExtractedHeader,
                   progressNotice, i, chunkPromises, chunkResults, k, task, held, results,
                   rejection, notices, handed, outOfOrder>>

FormNext == OnChangeMaxConcurrentPages

FormSpec == FormInit /\ [][FormNext]_vars

(***************************************************************************)
(* The folder setup of process alone, over every set of folders that may   *)
(* exist in the vault when the run starts.                                 *)
(***************************************************************************)
FolderInit ==
    /\ settings = DEFAULT_SETTINGS
    /\ \E env \in Environments : EditorOf(env)
    /\ vault \in SUBSET {FolderPathFor(BasePath, FileName, n) : n \in 0..MaxFolders}
    /\ ProcessEntry
    /\ NoCall
    /\ SingleRun

FolderNext ==
    \/ LoadDocument
    \/ CheckExists
    \/ CreateFolder

FolderSpec == FolderInit /\ [][FolderNext]_vars

(***************************************************************************)
(* Definitions used to state the properties.                               *)
(***************************************************************************)
Max(a, b) == IF a >= b THEN a ELSE b

Clamp(x, lo, hi) == Max(lo, Min(x, hi))

\* the offsets at which sub occurs in text
Offsets(text, sub) ==
    {off \in 0..(Len(text) - Len(sub)) :
        /\ text[off + 1] = sub[1]
        /\ SubSeq(text, off + 1, off + Len(sub)) = sub}

RunSucceeded == notices = <<"complete">>

RunFailed == notices = <<"failed">>

\* the page tasks started and not yet finished
InFlight == {p \in Pages : task[p] \notin {"idle", "done", "failed"}}

FailedPages == {p \in Pages : task[p] = "failed"}

\* the first and the last page of the chunk of page p, for a limit of at least 1
ChunkStart(p) == ((p - 1) \div CONCURRENCY_LIMIT) * CONCURRENCY_LIMIT + 1

ChunkEnd(p) == Min(ChunkStart(p) + CONCURRENCY_LIMIT - 1, totalPages)

\* what processing pages 1..n one after the other, each page's result being
\* post-processed before the next page, hands on, and the header it tracks
RECURSIVE SequentialRun(_)
SequentialRun(n) ==
    IF n = 0 THEN [last |-> <<>>, out |-> <<>>]
    ELSE LET prev  == SequentialRun(n - 1)
             dedup == DedupStep(results[n].rawHeader, prev.last,
                                settings.enableHeaders /\ settings.removeHeaderDuplicates)
             link  == BuildLink(results[n], dedup.finalHeader, settings.headerSize)
         IN  [last |-> dedup.last,
              out  |-> Append(prev.out, [pageNum |-> n, finalHeader |-> dedup.finalHeader,
                                         link |-> link])]

(***************************************************************************)
(* The properties.                                                         *)
(***************************************************************************)
\* C1: for every page count and every limit of at least 1, whatever the order
\* in which the page tasks of a chunk finish, the links handed to the insertion
\* carry the page numbers 1, 2, ... in ascending order without a gap, and all
\* of 1..pageCount once the loop has ended.
C1_LinksInPageOrder ==
    settings.maxConcurrentPages >= 1 =>
        /\ \A n \in 1..Len(handed) : handed[n].pageNum = n
        /\ (pc \in {"batch", "scrollTo", "complete"} \/ RunSucceeded) => Len(handed) = totalPages

C1_Witness ==
    /\ RunSucceeded
    /\ pc = "done"
    /\ outOfOrder
    /\ totalPages = 3
    /\ CONCURRENCY_LIMIT = 2
    /\ Len(handed) = 3

\* C2: the headers and links handed on, and the tracked header, are those of
\* the strictly sequential run over the same page results, for every limit and
\* every interleaving of the page tasks, across chunk boundaries too.
C2_SameAsSequential ==
    /\ \A n \in 1..Len(handed) : n \in DOMAIN results
    /\ handed = SequentialRun(Len(handed)).out
    /\ pc \in {"launch", "join", "post", "batch"} =>
           lastExtractedHeader = SequentialRun(Len(handed)).last

C2_Witness ==
    /\ RunSucceeded
    /\ outOfOrder
    /\ totalPages = 3
    /\ CONCURRENCY_LIMIT = 2
    /\ results[2].rawHeader = <<"A">>
    /\ results[3].rawHeader = <<"A">>
    /\ handed[2].finalHeader = <<"A">>
    /\ handed[3].finalHeader = <<>>

\* C3: after a successful run, with either insertion method, the link of every
\* page occurs exactly once in the note and the links occur in ascending page
\* order.
C3_EveryLinkOnceInOrder ==
    RunSucceeded =>
        /\ Len(handed) = totalPages
        /\ \A n \in 1..Len(handed) :
              /\ handed[n].pageNum = n
              /\ Cardinality(Offsets(editorText, handed[n].link)) = 1
        /\ \A n, m \in 1..Len(handed) :
              n < m => \A a \in Offsets(editorText, handed[n].link),
                          b \in Offsets(editorText, handed[m].link) : a < b

C3_Witness ==
    /\ RunSucceeded
    /\ settings.insertionMethod = "Procedural"
    /\ totalPages = 3
    /\ editorText # <<>>
    /\ \A n \in 1..3 : Cardinality(Offsets(editorText, handed[n].link)) = 1

\* C4: whenever page tasks are running, their number is at most
\* min(pageCount, maxConcurrentPages).
C4_BoundedConcurrency ==
    InFlight # {} =>
        Cardinality(InFlight) <= Min(totalPages, settings.maxConcurrentPages)

C4_Witness ==
    /\ InFlight = {1, 2}
    /\ settings.maxConcurrentPages = 2
    /\ totalPages = 3
    /\ task[3] = "idle"

\* C5: a page task of a chunk is started only when every page task of the
\* chunks before it has finished and their results have been post-processed:
\* handed on, and with the Procedural method inserted with their separator.
C5_ChunksInSequence ==
    CONCURRENCY_LIMIT >= 1 =>
        \A p \in Pages :
            (\E q \in Pages : task[q] # "idle" /\ p < ChunkStart(q)) =>
                /\ task[p] = "done"
                /\ Len(handed) >= p
                /\ handed[p].pageNum = p
                /\ settings.insertionMethod = "Procedural" =>
                       Offsets(editorText, handed[p].link
                                   \o imageSeparator(settings.imageSeparator)) # {}

C5_Witness ==
    /\ CONCURRENCY_LIMIT = 2
    /\ task[3] = "render"
    /\ settings.insertionMethod = "Procedural"
    /\ Len(handed) = 2

\* C6: the chunk size is clamp(maxConcurrentPages, 1, pageCount): pageCount for
\* a larger setting and 1 for a setting of 0 or less.
C6_LimitClamped ==
    progressNotice.created =>
        CONCURRENCY_LIMIT = Clamp(settings.maxConcurrentPages, 1, totalPages)

\* what holds of a run in which a page task has failed
C7_Aborted ==
    \A p \in FailedPages :
        /\ \A n \in 1..Len(handed) : handed[n].pageNum < ChunkStart(p)
        /\ Len(imageLinks) < ChunkStart(p)
        /\ \A q \in Pages : q > ChunkEnd(p) => task[q] = "idle"
        /\ ~RunSucceeded

\* C7: when a page task of a chunk fails, no link of that chunk or of a later
\* chunk is ever handed on, inserted or accumulated, no page task of a later
\* chunk is ever started, and no file is ever removed from storage.
C7_FailFast == [][C7_Aborted' /\ vault \subseteq vault']_vars

C7_Witness ==
    /\ RunFailed
    /\ pc = "done"
    /\ totalPages = 3
    /\ CONCURRENCY_LIMIT = 1
    /\ task = (1 :> "done") @@ (2 :> "failed") @@ (3 :> "idle")
    /\ Len(handed) = 1
    /\ ImagePath(folderPath, 1, settings.imageType) \in vault
    /\ ImagePath(folderPath, 2, settings.imageType) \in vault

\* C8: once the failure notice of a run has been shown, no page task writes to
\* storage or updates the progress notice any more.
C8_NothingAfterFailureNotice ==
    [][RunFailed => (vault' = vault /\ progressNotice'.message = progressNotice.message)]_vars

\* C9: at most one final notice is ever shown and a run that has ended has
\* shown exactly one, the completion notice only when every page was handed on.
C9_OneFinalNotice ==
    /\ Len(notices) <= 1
    /\ pc = "done" => (RunSucceeded \/ RunFailed)
    /\ RunSucceeded => Len(handed) = totalPages

C9_Witness ==
    /\ pc = "done"
    /\ RunFailed
    /\ Cardinality(FailedPages) >= 2

\* C10: a run that has ended shows no progress notice, whichever way it ended.
C10_ProgressDismissed ==
    pc = "done" => ~progressNotice.visible

C10_Witness ==
    /\ pc = "done"
    /\ RunFailed
    /\ progressNotice.created
    /\ FailedPages # {}
    /\ progressNotice.message > 0

\* the raw header of the n-th link handed on, and whether duplicates are removed
RawHeader(n) == results[handed[n].pageNum].rawHeader

DedupEnabled == settings.enableHeaders /\ settings.removeHeaderDuplicates

\* C11: with headers and duplicate removal enabled, every post-processing step
\* takes the next page in ascending order; a non-empty raw header equal to the
\* tracked header is emitted as empty and the tracked header stays, any other
\* non-empty raw header is emitted and becomes the tracked header.
C11_DedupRule ==
    [][(DedupEnabled /\ Len(handed') = Len(handed) + 1) =>
          LET n   == Len(handed')
              raw == results[handed'[n].pageNum].rawHeader
              out == handed'[n].finalHeader
          IN  /\ handed'[n].pageNum = n
              /\ (raw # <<>> /\ lastExtractedHeader = <<raw>>) =>
                     (out = <<>> /\ lastExtractedHeader' = lastExtractedHeader)
              /\ (raw # <<>> /\ lastExtractedHeader # <<raw>>) =>
                     (out = raw /\ lastExtractedHeader' = <<raw>>)]_vars

C11_Witness ==
    /\ DedupEnabled
    /\ Len(handed) = 3
    /\ [n \in 1..3 |-> RawHeader(n)] = << <<"A">>, <<"A">>, <<"B">> >>
    /\ [n \in 1..3 |-> handed[n].finalHeader] = << <<"A">>, <<>>, <<"B">> >>
    /\ lastExtractedHeader = << <<"B">> >>

\* C12: with duplicate removal enabled, a page without a raw header emits no
\* header and leaves the empty string as the tracked header, so that the header
\* of the next page is emitted even when it equals the header before the
\* header-less page.
C12_EmptyHeaderResets ==
    DedupEnabled =>
        /\ \A n \in 1..Len(handed) : RawHeader(n) = <<>> => handed[n].finalHeader = <<>>
        /\ \A n \in 2..Len(handed) :
               RawHeader(n - 1) = <<>> => handed[n].finalHeader = RawHeader(n)
        /\ (Len(handed) > 0 /\ RawHeader(Len(handed)) = <<>>) =>
               lastExtractedHeader = << <<>> >>

C12_Witness ==
    /\ DedupEnabled
    /\ Len(handed) = 3
    /\ [n \in 1..3 |-> RawHeader(n)] = << <<"A">>, <<>>, <<"A">> >>
    /\ [n \in 1..3 |-> handed[n].finalHeader] = << <<"A">>, <<>>, <<"A">> >>

\* C13: with duplicate removal enabled, a page with a non-empty raw header
\* emits it exactly when the page before it has another raw header (or there
\* is no page before it): of a run of equal headers only the first is emitted.
C13_FirstOfRunOnly ==
    DedupEnabled =>
        \A n \in 1..Len(handed) :
            RawHeader(n) # <<>> =>
                handed[n].finalHeader =
                    IF n > 1 /\ RawHeader(n - 1) = RawHeader(n) THEN <<>> ELSE RawHeader(n)

C13_Witness ==
    /\ DedupEnabled
    /\ Len(handed) = 3
    /\ \A n \in 1..3 : RawHeader(n) = <<"B">>
    /\ [n \in 1..3 |-> handed[n].finalHeader] = << <<"B">>, <<>>, <<>> >>

\* C14: with duplicate removal disabled every page emits its raw header, equal
\* headers on consecutive pages included, and the tracked header is never set.
C14_DisabledEmitsRaw ==
    ~DedupEnabled =>
        /\ \A n \in 1..Len(handed) : handed[n].finalHeader = RawHeader(n)
        /\ lastExtractedHeader = <<>>

C14_Witness ==
    /\ settings.enableHeaders
    /\ ~settings.removeHeaderDuplicates
    /\ Len(handed) = 3
    /\ \A n \in 1..3 : RawHeader(n) = <<"A">> /\ handed[n].finalHeader = <<"A">>

\* base/name for index 0 and base/name_index otherwise, for the base path "f"
\* and the file "#a# b.pdf", written out
ExpectedFolder(index) ==
    <<"f", "/", "a", " ", "b">> \o (IF index = 0 THEN <<>> ELSE <<"_">> \o NumStr(index))

\* C15: the path the folder setup ends with did not exist at its last existence
\* test: it is base/name when that is free and otherwise base/name_k for the
\* smallest k >= 1 that is free, the name being the file name without its
\* extension and without any '#'.
C15_FolderAllocation ==
    pc = "createFolder" =>
        /\ folderPath \notin vault
        /\ folderPath = ExpectedFolder(folderIndex)
        /\ \A n \in 0..(folderIndex - 1) : ExpectedFolder(n) \in vault
        /\ \A n \in 1..Len(folderPath) : folderPath[n] # "#"

C15_Witness ==
    /\ pc = "createFolder"
    /\ folderIndex = 2
    /\ ExpectedFolder(3) \in vault

\* the text items of the call whose trimmed text is not empty, in page order
VisibleFragments == SelectSeq(callArgs.page, LAMBDA l : Trim(l.text) # <<>>)

\* C16: on a page whose items with non-empty trimmed text all have the same
\* font size, extractHeader returns their texts joined by a space and trimmed,
\* for every sensitivity and whatever empty or blank items the page has too.
C16_SameSizeIsHeader ==
    (/\ callResult # <<>>
     /\ VisibleFragments # <<>>
     /\ \A n \in 1..Len(VisibleFragments) :
            VisibleFragments[n].fontSize = VisibleFragments[1].fontSize) =>
        callResult[1] = Trim(join([n \in 1..Len(VisibleFragments) |-> VisibleFragments[n].text],
                                  <<" ">>))

\* C17: on a page with the single text item "Title" extractHeader returns
\* "Title", for every sensitivity >= 0 and every font size of the item.
C17_SingleTitle ==
    (/\ callResult # <<>>
     /\ Len(callArgs.page) = 1
     /\ callArgs.page[1].text = TitleText
     /\ callArgs.headerExtractionSensitiveSetting >= 0) =>
        callResult = <<TitleText>>

C17_Witness ==
    /\ callResult = <<TitleText>>
    /\ Len(callArgs.page) = 1
    /\ callArgs.page[1].fontSize = 0
    /\ callArgs.headerExtractionSensitiveSetting = 20

\* text with insert put in at offset off
Spliced(text, insert, off) == SubSeq(text, 1, off) \o insert \o SubSeq(text, off + 1, Len(text))

\* C18: with the Procedural method every link is inserted, followed by the
\* separator, at the insert position, and the insert position then lies
\* exactly len(link) + len(separator) characters further on.
C18_CursorAdvance ==
    [][(/\ settings.insertionMethod = "Procedural"
        /\ Len(handed') = Len(handed) + 1
        /\ pc' = "post") =>
          LET inserted == handed'[Len(handed')].link \o imageSeparator(settings.imageSeparator)
              off      == posToOffset(editorText, insertPosition)
          IN  /\ editorText' = Spliced(editorText, inserted, off)
              /\ posToOffset(editorText', insertPosition') = off + Len(inserted)
              /\ offsetToPos(editorText', off + Len(inserted)) = insertPosition'
              /\ insertPosition'.line = insertPosition.line + CountNewlines(inserted)]_vars

C18_Witness ==
    /\ settings.insertionMethod = "Procedural"
    /\ Len(handed) = 3
    /\ pc = "post"
    /\ initialCursor = [line |-> 1, ch |-> 0]
    /\ insertPosition.line > 3
    /\ editorText[Len(editorText)] = "m"

\* every link handed on, joined by the separator
AllLinks == join([n \in 1..Len(handed) |-> handed[n].link], imageSeparator(settings.imageSeparator))

\* C19: with the Batch method the note changes in one step only, taken when
\* every page of every chunk has been processed: that step inserts all links
\* joined by the separator at the cursor read before the first page, it is
\* never taken twice, and a successful run has taken it.
C19_BatchOneInsertion ==
    /\ [][(settings.insertionMethod = "Batch" /\ editorText' # editorText) =>
             /\ pc = "batch" /\ pc' = "scrollTo"
             /\ Len(handed) = totalPages
             /\ \A p \in 1..totalPages : task[p] = "done"
             /\ initialCursor = editorCursor
             /\ editorText' = Spliced(editorText, AllLinks,
                                      posToOffset(editorText, initialCursor))]_vars
    /\ [][(pc \in {"scrollTo", "complete", "catch", "finally", "done"}) => (pc' # "batch")]_vars
    /\ [](settings.insertionMethod = "Batch" /\ RunSucceeded =>
             LET off == posToOffset(editorText, initialCursor)
             IN  SubSeq(editorText, off + 1, off + Len(AllLinks)) = AllLinks)

C19_Witness ==
    /\ settings.insertionMethod = "Batch"
    /\ RunSucceeded
    /\ totalPages = 3
    /\ CONCURRENCY_LIMIT = 1
    /\ initialCursor = [line |-> 1, ch |-> 0]
    /\ Len(editorText) = 3 + Len(AllLinks)

\* C20: with the Batch method the scroll offset is read right before the one
\* insertion, and after a successful run the editor is at that offset again.
C20_ScrollRestored ==
    /\ [][(settings.insertionMethod = "Batch" /\ pc = "batch" /\ pc' = "scrollTo") =>
             scrollInfo' = editorScroll]_vars
    /\ [](settings.insertionMethod = "Batch" /\ RunSucceeded => editorScroll = scrollInfo)

C20_Witness ==
    /\ settings.insertionMethod = "Batch"
    /\ RunSucceeded
    /\ pc = "done"
    /\ totalPages = 3
    /\ editorScroll = 1

\* the file of page p in the folder of the run, written out for the type webp
ExpectedImage(p) ==
    ExpectedFolder(folderIndex)
        \o <<"/", "p", "a", "g", "e", "_", Digit(p), ".", "w", "e", "b", "p">>

\* the files below the folder of the run
WrittenFiles ==
    {path \in vault : /\ Len(path) > Len(folderPath) + 1
                      /\ SubSeq(path, 1, Len(folderPath) + 1) = folderPath \o <<"/">>}

\* C21: the files in the folder of a run are files page_<n>.<type> of its
\* pages; the file of a page is there once its task is past the write and not
\* before, and after a successful run the folder holds exactly the files of
\* the pages 1..pageCount.
C21_OneFilePerPage ==
    progressNotice.created =>
        /\ WrittenFiles \subseteq {ExpectedImage(p) : p \in 1..totalPages}
        /\ \A p \in 1..totalPages :
               /\ task[p] \in {"getTextContent", "done"} => ExpectedImage(p) \in vault
               /\ task[p] \in {"idle", "getPage", "render", "toBlob", "arrayBuffer",
                                "createBinary"} => ExpectedImage(p) \notin vault
        /\ \A p, q \in 1..totalPages : p # q => ExpectedImage(p) # ExpectedImage(q)
        /\ RunSucceeded => WrittenFiles = {ExpectedImage(p) : p \in 1..totalPages}

C21_Witness ==
    /\ RunSucceeded
    /\ totalPages = 3
    /\ folderIndex = 1
    /\ outOfOrder
    /\ Cardinality(WrittenFiles) = 3

\* C22: a page task that has finished, with a result or with a failure, holds
\* no page handle and no canvas any more.
C22_ResourcesReleased ==
    \A p \in Pages : task[p] \in {"done", "failed"} => p \notin held

\* a step of a page task: the position of a started task moves while process
\* stays where it is suspended
TaskStep == task' # task /\ pc' = pc

\* the variables of process and of the editor that no page task may write
ProcessOwned ==
    <<inputVars, callVars, other, editorVars, setupVars, insertPosition, imageLinks,
      lastExtractedHeader, i, chunkPromises, chunkResults, k, notices, handed>>

\* C23 as stated: a step of a page task writes the storage backend and what
\* belongs to the task itself (its position, its handles, its result, the
\* settlement of its promise) and nothing else: not the progress count, not
\* the progress notice and no variable of process or of the editor.
C23_OnlyFolderAndStorage ==
    [][TaskStep => UNCHANGED <<ProcessOwned, completedPages, progressNotice>>]_vars

\* C23 amended: the state shared across concurrent tasks is the output folder
\* path (never written by a task), the storage backend (files are only added)
\* and the progress count with its notice (a finishing task adds one to the
\* count and shows it); a step of a page task writes no other variable of
\* process or of the editor and leaves the results of the other tasks alone.
C23_SharedProgressOnly ==
    [][TaskStep =>
          /\ UNCHANGED ProcessOwned
          /\ vault \subseteq vault'
          /\ \/ UNCHANGED <<completedPages, progressNotice>>
             \/ /\ completedPages' = completedPages + 1
                /\ progressNotice' = [progressNotice EXCEPT !.message = completedPages + 1]
                /\ \E p \in Pages : task[p] # "done" /\ task'[p] = "done"
          /\ \A q \in Pages :
                task'[q] = task[q] =>
                    /\ (q \in DOMAIN results') = (q \in DOMAIN results)
                    /\ q \in DOMAIN results => results'[q] = results[q]]_vars

C23_Witness ==
    /\ pc = "join"
    /\ Cardinality(InFlight) = 1
    /\ outOfOrder
    /\ completedPages = 1
    /\ progressNotice.message = 1
    /\ imageLinks = <<>>
    /\ Cardinality(WrittenFiles) = 2

\* the values extractHeader can return for the pages of a run
RawHeaderValues ==
    IF settings.enableHeaders
    THEN {extractHeader(page, settings.headerExtractionSensitive) : page \in PageKinds}
    ELSE {<<>>}

\* C24: the tracked header, the insert position, the link list and the editor
\* change only in steps of process (the initialisation at the start, the
\* post-processing of a joined chunk, the batch insertion and the scroll
\* restoration), never in a step of a page task and never while a page task
\* of the chunk is in flight; what a page task returns is the header as
\* extracted, whatever the tracked header is.
C24_PostProcessingOwnsState ==
    /\ [][(\/ lastExtractedHeader' # lastExtractedHeader
           \/ insertPosition' # insertPosition
           \/ imageLinks' # imageLinks
           \/ editorVars' # editorVars)
             => /\ pc \in {"start", "post", "batch", "scrollTo"}
                /\ task' = task
                /\ pc \in {"post", "batch", "scrollTo"} => InFlight = {}]_vars
    /\ [](\A p \in DOMAIN results : results[p].rawHeader \in RawHeaderValues)

C24_Witness ==
    /\ DedupEnabled
    /\ pc = "join"
    /\ Len(handed) = 2
    /\ InFlight = {3}
    /\ results[1].rawHeader # <<>>
    /\ results[2].rawHeader = results[1].rawHeader
    /\ handed[2].finalHeader = <<>>
    /\ lastExtractedHeader = <<results[1].rawHeader>>
    /\ 2 \in DOMAIN results

\* the image reference of page p, written out: the file page_<p>.webp in the
\* folder f/a b or f/a b_<index> with the space percent-encoded, and the width
\* 612.5 of the page at scale 1.0 rounded to 613 when the scale is below 1.0
ExpectedReference(p) ==
    LET file == <<"p", "a", "g", "e", "_", Digit(p), ".", "w", "e", "b", "p">>
        hint == IF imageQuality < 10 THEN <<"|", "6", "1", "3">> ELSE <<>>
        dir  == <<"f", "/", "a", "%", "2", "0", "b">>
                    \o (IF folderIndex = 0 THEN <<>> ELSE <<"_", Digit(folderIndex)>>)
    IN  <<"!", "[">> \o file \o hint \o <<"]", "(">> \o dir \o <<"/">> \o file \o <<")">>

\* C25: the link of a page is "# " + final header + newline + image reference
\* when the final header is not empty and the image reference alone otherwise;
\* the reference carries the rounded scale-1.0 width exactly when the render
\* scale is below 1.0.
C25_LinkText ==
    \A n \in 1..Len(handed) :
        handed[n].link =
            IF handed[n].finalHeader # <<>>
            THEN <<"#", " ">> \o handed[n].finalHeader \o <<"\n">>
                     \o ExpectedReference(handed[n].pageNum)
            ELSE ExpectedReference(handed[n].pageNum)

C25_Witness ==
    /\ pc = "done"
    /\ RunSucceeded
    /\ imageQuality < 10
    /\ folderIndex = 1
    /\ Len(handed) = 2
    /\ handed[1].finalHeader # <<>>
    /\ handed[2].finalHeader = <<>>

\* C26: with a limit L of at least 1, every chunk the loop starts begins at a
\* page 1, L+1, 2L+1, ... and consists of the consecutive pages from there up
\* to L pages or the last page: it has L pages unless it is the last one,
\* which has between 1 and L; its pages belong to no earlier chunk and every
\* page before it belongs to one; when the loop ends every page has belonged
\* to a chunk.
C26_ChunkPartition ==
    [][(pc = "launch" /\ CONCURRENCY_LIMIT >= 1) =>
          LET L    == CONCURRENCY_LIMIT
              last == Min(i + L - 1, totalPages)
          IN  /\ pc' = "join" =>
                    /\ (i - 1) % L = 0
                    /\ chunkPromises' = [n \in 1..(last - i + 1) |-> i + n - 1]
                    /\ Len(chunkPromises') \in 1..L
                    /\ last < totalPages => Len(chunkPromises') = L
                    /\ \A p \in 1..totalPages :
                          /\ p < i => task[p] # "idle"
                          /\ p >= i => task[p] = "idle"
                          /\ p > last => task'[p] = "idle"
                          /\ p \in i..last => task'[p] # "idle"
              /\ pc' = "batch" => \A p \in 1..totalPages : task[p] # "idle"]_vars

C26_Witness ==
    /\ pc = "join"
    /\ totalPages = 3
    /\ CONCURRENCY_LIMIT = 2
    /\ i = 3
    /\ chunkPromises = <<3>>
    /\ task[3] = "getPage"
    /\ task[1] = "done" /\ task[2] = "done"

\* the texts of the fragments n..Len(page) of a page that are in chosen, in
\* page order, each followed by a space
RECURSIVE ReferenceJoin(_, _, _)
ReferenceJoin(page, chosen, n) ==
    IF n > Len(page) THEN <<>>
    ELSE (IF n \in chosen THEN page[n].text \o <<" ">> ELSE <<>>)
             \o ReferenceJoin(page, chosen, n + 1)

\* the sum of the font sizes of the fragments 1..n of a page
RECURSIVE ReferenceSum(_, _)
ReferenceSum(page, n) == IF n = 0 THEN 0 ELSE page[n].fontSize + ReferenceSum(page, n - 1)

\* the reference algorithm, on the fragments in page order; the sensitivity
\* is in tenths
ReferenceHeader(page, sensitivity) ==
    LET sizes   == {page[n].fontSize : n \in DOMAIN page}
        largest == IF sizes = {} THEN 0 ELSE CHOOSE m \in sizes : \A x \in sizes : x <= m
        visible == {n \in DOMAIN page :
                       \E c \in 1..Len(page[n].text) : ~IsSpace(page[n].text[c])}
        chosen  == {n \in visible : page[n].fontSize = largest}
        header  == Trim(ReferenceJoin(page, chosen, 1))
    IN  IF header = <<>> THEN <<>>
        ELSE IF \A n \in visible : page[n].fontSize = largest THEN header
        ELSE IF largest * 10 * Len(page) < ReferenceSum(page, Len(page)) * sensitivity THEN <<>>
        ELSE header

ExtraLines(setting) ==
    LET blank == <<"\n">>
        rule  == <<"*", "*", "*", "\n">>
    IN  CASE setting = 1 -> blank
          [] setting = 2 -> rule
          [] setting = 3 -> blank \o rule
          [] OTHER       -> <<>>

\* the separator literal: the end of the link's line and the extra lines
ExpectedSeparator(setting) == <<"\n">> \o ExtraLines(setting)

\* the note the run started with
InitialText == (CHOOSE env \in Environments : env.imageQuality = imageQuality).text

\* C28: after a successful run the note is the initial note with the links
\* put in at the initial cursor, separated by the literal the separator
\* setting alone determines (after every link with the Procedural method,
\* between the links with the Batch method): the end of the line and then
\* nothing for 0, a blank line for 1, a rule line for 2, a blank line and a
\* rule line for 3, and for a value outside 0..3 the same as for 0.
C28_SeparatorMapping ==
    RunSucceeded =>
        LET sep   == ExpectedSeparator(settings.imageSeparator)
            links == [n \in 1..Len(handed) |-> handed[n].link]
            body  == IF settings.insertionMethod = "Procedural"
                     THEN join(links, sep) \o sep
                     ELSE join(links, sep)
        IN  editorText = Spliced(InitialText, body, posToOffset(InitialText, initialCursor))

C28_Witness ==
    /\ RunSucceeded
    /\ settings.imageSeparator = 4
    /\ settings.insertionMethod = "Batch"
    /\ Len(handed) = 3
    /\ InitialText # <<>>
    /\ Cardinality(Offsets(editorText, <<")", "\n", "!">>)) = 2

\* C29: for every page count and every stored value of maxConcurrentPages,
\* 0 and negative values included, the page index of the chunk loop is strictly
\* larger after every iteration (so that a run whose page tasks all end
\* reaches the completion or the failure notice).
C29_IndexIncreases ==
    [][(pc = "post" /\ pc' = "launch") => i' > i]_vars

\* where the link built for the n-th page handed on stands in the note
LinkOffsets(n) == Offsets(editorText, handed[n].link)

\* C30: whenever the insertion method is changed in the settings during a
\* run, the finished run has left the link of every page in the note exactly
\* once, and the link of a page before the link of every later page.
C30_MethodFixedForRun ==
    (pc = "done" /\ RunSucceeded) =>
        /\ \A n \in 1..totalPages : n <= Len(handed) /\ Cardinality(LinkOffsets(n)) = 1
        /\ \A n \in 1..(Len(handed) - 1) :
              \A a \in LinkOffsets(n), b \in LinkOffsets(n + 1) : a < b

\* the note, cursor and scroll offset the run started with
InitialEnv == CHOOSE env \in Environments : env.imageQuality = imageQuality

\* the links of the first n pages handed on, each followed by the separator
RECURSIVE LinksWithSeparators(_)
LinksWithSeparators(n) ==
    IF n = 0 THEN <<>>
    ELSE LinksWithSeparators(n - 1) \o handed[n].link
             \o imageSeparator(settings.imageSeparator)

\* C31: when a page task of chunk N has failed, with the Batch method the
\* text, the cursor and the scroll offset of the note are those from before
\* the run; with the Procedural method the note is the initial note with the
\* links of the pages of the chunks 1..N-1, each followed by its separator, in
\* page order at the initial cursor, and nothing of chunk N.
C31_NoteAfterFailure ==
    \A p \in FailedPages :
        IF settings.insertionMethod = "Batch"
        THEN /\ editorText = InitialEnv.text
             /\ editorCursor = InitialEnv.cursor
             /\ editorScroll = InitialEnv.scroll
        ELSE /\ Len(handed) = ChunkStart(p) - 1
             /\ \A n \in 1..Len(handed) : handed[n].pageNum = n
             /\ editorText = Spliced(InitialEnv.text, LinksWithSeparators(ChunkStart(p) - 1),
                                     posToOffset(InitialEnv.text, InitialEnv.cursor))
             /\ editorCursor = InitialEnv.cursor

C31_Witness ==
    /\ RunFailed
    /\ pc = "done"
    /\ settings.insertionMethod = "Procedural"
    /\ CONCURRENCY_LIMIT = 2
    /\ task = (1 :> "done") @@ (2 :> "done") @@ (3 :> "failed")
    /\ InitialEnv.text # <<>>
    /\ Len(editorText) > Len(InitialEnv.text)

\* the text a Batch run inserts for the document of this run: the links of
\* the strictly sequential run over its page results, joined by the separator
BatchText ==
    LET out == SequentialRun(totalPages).out
    IN  join([n \in 1..Len(out) |-> out[n].link], imageSeparator(settings.imageSeparator))

\* what the run has put into the note, taken at the offset of the initial
\* cursor, and the note around it
InsertedAt == posToOffset(InitialEnv.text, InitialEnv.cursor)

InsertedText ==
    SubSeq(editorText, InsertedAt + 1, InsertedAt + Len(editorText) - Len(InitialEnv.text))

\* C32: a successful run leaves the note as it was before and after the
\* initial cursor and inserts there, with the Batch method, the links of the
\* document joined by the separator and, with the Procedural method, that
\* same text followed by exactly one more separator.
C32_ProceduralIsBatchPlusSeparator ==
    RunSucceeded =>
        /\ Len(editorText) >= Len(InitialEnv.text)
        /\ SubSeq(editorText, 1, InsertedAt) = SubSeq(InitialEnv.text, 1, InsertedAt)
        /\ SubSeq(editorText, InsertedAt + Len(InsertedText) + 1, Len(editorText))
               = SubSeq(InitialEnv.text, InsertedAt + 1, Len(InitialEnv.text))
        /\ InsertedText = IF settings.insertionMethod = "Batch"
                          THEN BatchText
                          ELSE BatchText \o imageSeparator(settings.imageSeparator)

C32_Witness ==
    /\ RunSucceeded
    /\ settings.insertionMethod = "Procedural"
    /\ settings.imageSeparator = 3
    /\ totalPages = 2
    /\ outOfOrder
    /\ InsertedAt > 0
    /\ InsertedText = BatchText \o <<"\n", "\n", "*", "*", "*", "\n">>

\* a step in which the user edits the note
UserStep == pc \in {"exists", "createFolder", "join"} /\ editorText' # editorText

\* a step in which the run inserts a link with the Procedural method
ProceduralInsertion ==
    /\ settings.insertionMethod = "Procedural"
    /\ Len(handed') = Len(handed) + 1
    /\ editorText' # editorText

\* the link and separator inserted in a step of ProceduralInsertion
InsertedNow == handed'[Len(handed')].link \o imageSeparator(settings.imageSeparator)

\* C33 as stated: whatever was typed or deleted in the note during the run,
\* the link of every page is inserted at the offset of the initially captured
\* cursor plus the length of the texts the run inserted before it, and no
\* step of the run moves the cursor of the editor.
C33_OffsetIgnoresEdits ==
    /\ [][ProceduralInsertion =>
             editorText' = Spliced(editorText, InsertedNow,
                               posToOffset(InitialEnv.text, initialCursor)
                                   + Len(LinksWithSeparators(Len(handed))))]_vars
    /\ [][~UserStep => editorCursor' = editorCursor]_vars

\* C33 amended: the insert position is a line and a column that no edit of
\* the user changes; it is the captured cursor for the first link and then
\* the line and column just behind the previous insertion as the note was at
\* that insertion; every link is inserted at the offset that line and column
\* have in the note as it is when the link is inserted, and no step of the
\* run moves the cursor of the editor.
C33_PositionIgnoresEdits ==
    /\ [][UserStep => insertPosition' = insertPosition /\ initialCursor' = initialCursor]_vars
    /\ [][ProceduralInsertion =>
             /\ Len(handed) = 0 => insertPosition = InitialEnv.cursor
             /\ editorText' = Spliced(editorText, InsertedNow,
                                      posToOffset(editorText, insertPosition))
             /\ insertPosition' =
                    offsetToPos(editorText',
                                posToOffset(editorText', insertPosition) + Len(InsertedNow))]_vars
    /\ [][~UserStep => editorCursor' = editorCursor]_vars

C33_Witness ==
    /\ RunSucceeded
    /\ settings.insertionMethod = "Procedural"
    /\ totalPages = 2
    /\ InitialEnv.text # <<>>
    /\ editorText[1] = "u"
    /\ TypedCount(editorText) = 1
    /\ editorCursor # InitialEnv.cursor
    /\ Offsets(editorText, handed[1].link) = {3}

\* C34: a page task uses its page handle only before it releases the page's
\* resources: a task whose extractHeader call on the page is pending has not
\* released them yet.
C34_NoUseAfterRelease ==
    \A p \in Pages : task[p] = "getTextContent" => p \in held

\* C35: two runs on files of the same cleaned name never both get past the
\* creation of the same folder, so the images of the one are never written
\* into the folder of the other; a run whose folder creation failed, because
\* the other run created the path between its existence test and its own
\* createFolder or for another reason, ends with the failure notice and has
\* written no image.
C35_NoSharedFolder ==
    /\ (progressNotice.created /\ other.created) => folderPath # other.folderPath
    /\ \A path \in other.written :
          /\ other.created
          /\ path = other.folderPath \o <<"/", "p", "a", "g", "e", "_", "1", ".", "w", "e", "b", "p">>
          /\ progressNotice.created => path \notin WrittenFiles
    /\ (other.pc = "done" /\ ~other.created) =>
           other.notices = <<"failed">> /\ other.written = {}
    /\ (pc = "done" /\ ~progressNotice.created) =>
           RunFailed /\ \A p \in Pages : task[p] = "idle"

C35_Witness ==
    /\ pc = "done"
    /\ other.pc = "done"
    /\ folderIndex = 1
    /\ other.folderPath = folderPath
    /\ other.created
    /\ other.written # {}
    /\ other.notices = <<"complete">>
    /\ ~progressNotice.created
    /\ RunFailed

\* C36: for a sensitivity between 0 and 1 and a page whose items all have a
\* non-negative font size, extractHeader returns a non-empty header whenever
\* an item of the largest font size has a non-empty trimmed text.
C36_NoThresholdRejection ==
    (/\ callResult # <<>>
     /\ callArgs.headerExtractionSensitiveSetting \in 0..10
     /\ \A n \in DOMAIN callArgs.page : callArgs.page[n].fontSize >= 0
     /\ \E n \in DOMAIN callArgs.page :
           /\ Trim(callArgs.page[n].text) # <<>>
           /\ \A m \in DOMAIN callArgs.page :
                 callArgs.page[m].fontSize <= callArgs.page[n].fontSize)
        => callResult[1] # <<>>

\* the page tasks that have written their file, extracted the header and
\* returned
Finished == {p \in Pages : task[p] = "done"}

\* C37: the progress count never decreases and never exceeds the number of
\* pages, whatever the interleaving of the page tasks; it goes up by one
\* exactly when a page task finishes, so that it is the number of finished
\* tasks and the count the notice shows, and it is the number of pages when
\* the run has completed.
C37_ProgressCount ==
    /\ [][/\ completedPages' >= completedPages
          /\ completedPages' # completedPages =>
                /\ completedPages' = completedPages + 1
                /\ Cardinality(Finished') = Cardinality(Finished) + 1
          /\ Finished' # Finished => completedPages' = completedPages + 1]_vars
    /\ [](/\ completedPages = Cardinality(Finished)
          /\ completedPages <= totalPages
          /\ progressNotice.message = completedPages
          /\ RunSucceeded => completedPages = totalPages)

C37_Witness ==
    /\ RunSucceeded
    /\ outOfOrder
    /\ totalPages = 3
    /\ completedPages = 3
    /\ progressNotice.message = 3
    /\ ~progressNotice.visible

\* the entered text without the white space in front of it
Entered == TrimStart(callArgs.value)

\* the entered text starts, after an optional '+', with the decimal numeral of
\* n (zeros in front allowed) and goes on with no digit
Denotes(n) ==
    LET body == IF Entered # <<>> /\ Head(Entered) = "+" THEN Tail(Entered) ELSE Entered
    IN  \E zeros \in 0..Len(body) :
           LET len == zeros + Len(NumStr(n))
           IN  /\ len <= Len(body)
               /\ \A z \in 1..zeros : body[z] = "0"
               /\ SubSeq(body, zeros + 1, len) = NumStr(n)
               /\ len < Len(body) => body[len + 1] \notin {Digit(d) : d \in 0..9}

\* C38: the handler of the field stores a new maxConcurrentPages, and saves
\* the settings, exactly when the entered text parses to an integer above 0,
\* and then it stores that integer; for an empty text, a text that does not
\* start with a number, zero and negative numbers the setting keeps its
\* previous value, no other setting changes and nothing is saved.
C38_FormStoresPositiveOnly ==
    callResult # <<>> =>
        LET positive == {n \in 1..(10 ^ MaxInput) : Denotes(n)}
        IN  /\ Cardinality(positive) <= 1
            /\ \A n \in positive :
                  /\ settings = [DEFAULT_SETTINGS EXCEPT !.maxConcurrentPages = n]
                  /\ callResult[1].saved = <<settings>>
            /\ positive = {} =>
                  /\ settings = DEFAULT_SETTINGS
                  /\ callResult[1].saved = <<>>

C38_Witness ==
    /\ callResult # <<>>
    /\ callArgs.value = <<" ", "5", "a">>
    /\ settings.maxConcurrentPages = 5
    /\ callResult[1].saved # <<>>

====
